---------------------------- MODULE Spec2Model ----------------------------
(***************************************************************************)
(* s3strata: the file manager (file_manager.py) over the object store      *)
(* gateway (objectstore.py), the tier resolver (config.py) and the         *)
(* SQLAlchemy storage adapter (examples/sqlalchemy_adapter.py).            *)
(*                                                                         *)
(* Python strings that the code slices or tests with startswith are        *)
(* sequences of one-character strings; an Optional value is <<>> (None)    *)
(* or <<x>>.  Every backend call (S3 put/get/delete/list, adapter          *)
(* create/update/delete/find) is one step of the coroutine that issues it  *)
(* and may raise.                                                          *)
(***************************************************************************)
EXTENDS Integers, Sequences, FiniteSets, TLC

(***************************************************************************)
(* Bounds of the model.                                                    *)
(***************************************************************************)
\* records the adapter ever creates (autoincrement ids 1..MaxFiles)
MaxFiles == 1
\* backend calls that raise in one behaviour
MaxFaults == 1
\* the clock runs over 0..MaxTime
MaxTime == 1
\* records created in a behaviour without failures (SpecClean)
MaxCleanFiles == 2
\* records created before the sweep of expired files (SpecSweep)
MaxSweepFiles == 3
\* objects that other writers put in the buckets (SpecOrphans)
MaxForeign == 2
\* records created before tiers and hot durations are changed (SpecHot)
MaxHotFiles == 1
\* public files uploaded before their URLs are asked for (SpecUrl)
MaxUrlFiles == 2
\* records whose paths are followed through the tiers (SpecPrefix)
MaxPrefixFiles == 1
\* records created by uploads before paths are compared (SpecPaths)
MaxPathFiles == 1
\* keys in one page of a listing (SpecStore)
MaxKeys == 1
\* records created while two callers run side by side (SpecRace)
MaxRaceFiles == 1

(***************************************************************************)
(* Python values.                                                          *)
(***************************************************************************)
None == <<>>

Some(x) == <<x>>

\* Python truthiness of an Optional[str] held as a sequence of characters
Truthy(o) == o # None /\ o[1] # <<>>

\* str(x) of an Optional[str], as an f-string formats it
Fmt(o) == IF o = None THEN <<"N", "o", "n", "e">> ELSE o[1]

StartsWith(s, p) == Len(s) >= Len(p) /\ SubSeq(s, 1, Len(p)) = p

\* s[n:]
SliceFrom(s, n) == SubSeq(s, n + 1, Len(s))

PUBLIC_SLASH == <<"p", "u", "b", "l", "i", "c", "/">>

PRIVATE_SLASH == <<"p", "r", "i", "v", "a", "t", "e", "/">>

DEFAULT_PUBLIC == <<"p", "u", "b", "l", "i", "c">>

DEFAULT_PRIVATE == <<"p", "r", "i", "v", "a", "t", "e">>

StorageTier == {"HOT", "COLD"}

FileVisibility == {"PUBLIC", "PRIVATE"}

(***************************************************************************)
(* config.py                                                               *)
(***************************************************************************)
\* S3TierConfig(endpoint, access_key, secret_key, bucket) with the dataclass
\* defaults of the other fields
S3TierConfig(endpoint, bucket) ==
    [endpoint |-> endpoint, access_key |-> "key", secret_key |-> "secret",
     bucket |-> bucket, port |-> 443, use_ssl |-> TRUE,
     public_prefix |-> Some(DEFAULT_PUBLIC),
     private_prefix |-> Some(DEFAULT_PRIVATE)]

\* S3StrataConfig() with every field at its default (None)
EmptyConfig ==
    [endpoint |-> None, port |-> None, use_ssl |-> None,
     access_key |-> None, secret_key |-> None,
     hot_bucket |-> None, cold_bucket |-> None,
     public_hot_prefix |-> None, private_hot_prefix |-> None,
     public_cold_prefix |-> None, private_cold_prefix |-> None,
     hot |-> None, cold |-> None]

\* shared endpoint mode, no prefix overrides (examples/sqlalchemy_adapter.py)
SharedConfig ==
    [EmptyConfig EXCEPT !.endpoint = Some("s3"), !.access_key = Some("key"),
                        !.secret_key = Some("secret"),
                        !.hot_bucket = Some("hot-bucket"),
                        !.cold_bucket = Some("cold-bucket")]

\* separate endpoint mode (tests/test_config.py, test_separate_config_mode)
SeparateConfig ==
    [EmptyConfig EXCEPT !.hot = Some(S3TierConfig("hot.s3", "hot-bucket")),
                        !.cold = Some(S3TierConfig("cold.s3", "cold-bucket"))]

\* per-tier overrides whose public and private prefixes are the same string
EqualConfig ==
    [EmptyConfig EXCEPT
        !.hot = Some([S3TierConfig("hot.s3", "hot-bucket") EXCEPT
                         !.private_prefix = Some(DEFAULT_PUBLIC)]),
        !.cold = Some([S3TierConfig("cold.s3", "cold-bucket") EXCEPT
                          !.private_prefix = Some(DEFAULT_PUBLIC)])]

\* prefixes other than the defaults
CUSTOM_PUBLIC == <<"p", "u", "b">>

CUSTOM_PRIVATE == <<"p", "r", "i", "v">>

\* shared endpoint mode with the four prefix overrides set
\* (tests/test_config.py, test_get_tier_config_shared_mode)
OverrideConfig ==
    [SharedConfig EXCEPT !.public_hot_prefix = Some(CUSTOM_PUBLIC),
                         !.private_hot_prefix = Some(CUSTOM_PRIVATE),
                         !.public_cold_prefix = Some(CUSTOM_PUBLIC),
                         !.private_cold_prefix = Some(CUSTOM_PRIVATE)]

\* shared endpoint mode with prefix overrides for HOT alone: COLD has the
\* defaults (tests/test_config.py, test_get_path_prefix)
HotPrefixConfig ==
    [SharedConfig EXCEPT !.public_hot_prefix = Some(CUSTOM_PUBLIC),
                         !.private_hot_prefix = Some(CUSTOM_PRIVATE)]

\* per-tier overrides that name their own prefixes
CustomTierConfig ==
    [EmptyConfig EXCEPT
        !.hot = Some([S3TierConfig("hot.s3", "hot-bucket") EXCEPT
                         !.public_prefix = Some(CUSTOM_PUBLIC),
                         !.private_prefix = Some(CUSTOM_PRIVATE)]),
        !.cold = Some(S3TierConfig("cold.s3", "cold-bucket"))]

\* `not x` for an Optional[str] held as a TLA+ string
Missing(o) == o = None \/ o[1] = ""

\* x or d, for Optional[str] prefixes
OrElse(o, d) == IF Truthy(o) THEN o ELSE Some(d)

\* raise ValueError(f"Missing ... configuration for {tier} tier. ..."): the
\* start of the message and the tier formatted into it
ConfigError(message, tier) ==
    [ok |-> FALSE, cfg |-> None,
     error |-> [type |-> "ValueError", message |-> message, tier |-> tier]]

\* get_tier_config, from "Fall back to shared config" on
shared_tier_config(config, tier) ==
    IF Missing(config.endpoint) \/ Missing(config.access_key)
       \/ Missing(config.secret_key)
    THEN ConfigError("Missing S3 configuration", tier)
    ELSE LET bucket == IF tier = "HOT" THEN config.hot_bucket
                       ELSE config.cold_bucket
         IN IF Missing(bucket)
            THEN ConfigError("Missing bucket configuration", tier)
            ELSE [ok |-> TRUE,
                  cfg |-> [endpoint |-> config.endpoint[1],
                           port |-> IF config.port # None THEN config.port[1]
                                    ELSE 443,
                           use_ssl |-> IF config.use_ssl # None
                                       THEN config.use_ssl[1] ELSE TRUE,
                           access_key |-> config.access_key[1],
                           secret_key |-> config.secret_key[1],
                           bucket |-> bucket[1],
                           \* a if c else (b or "public"): HOT takes the
                           \* override field as it is, None included
                           public_prefix |->
                               IF tier = "HOT" THEN config.public_hot_prefix
                               ELSE OrElse(config.public_cold_prefix,
                                           DEFAULT_PUBLIC),
                           private_prefix |->
                               IF tier = "HOT" THEN config.private_hot_prefix
                               ELSE OrElse(config.private_cold_prefix,
                                           DEFAULT_PRIVATE)]]

\* a get_tier_config that does not look at the per-tier overrides
get_tier_config_shared_only(config, tier) == shared_tier_config(config, tier)

\* get_tier_config: [ok |-> FALSE] stands for the ValueError
get_tier_config(config, tier) ==
    IF tier = "HOT" /\ config.hot # None THEN [ok |-> TRUE, cfg |-> config.hot[1]]
    ELSE IF tier = "COLD" /\ config.cold # None
    THEN [ok |-> TRUE, cfg |-> config.cold[1]]
    ELSE shared_tier_config(config, tier)

TierCfg(config, tier) == get_tier_config(config, tier).cfg

\* get_bucket_name, with the endpoint the tier's client talks to: the place
\* the tier's objects live in
Bucket(config, tier) ==
    <<TierCfg(config, tier).endpoint, TierCfg(config, tier).bucket>>

\* get_path_prefix: Optional[str]
get_path_prefix(config, tier, visibility) ==
    IF visibility = "PUBLIC" THEN TierCfg(config, tier).public_prefix
    ELSE TierCfg(config, tier).private_prefix

(***************************************************************************)
(* file_manager.py: the pure helpers                                       *)
(***************************************************************************)
\* _get_visibility_from_path: "INVALID" stands for the ValueError
get_visibility_from_path(path) ==
    IF StartsWith(path, PUBLIC_SLASH) THEN "PUBLIC"
    ELSE IF StartsWith(path, PRIVATE_SLASH) THEN "PRIVATE"
    ELSE "INVALID"

\* _build_path: f"{prefix}/{path_suffix}"
build_path(config, tier, visibility, path_suffix) ==
    Fmt(get_path_prefix(config, tier, visibility)) \o <<"/">> \o path_suffix


(***************************************************************************)
(* objectstore.py: the URL builders                                        *)
(***************************************************************************)
\* urllib.parse.quote(path, safe="/"), one character at a time: letters,
\* digits and "_.-~/" stay, anything else becomes %XX
QuoteChar(c) ==
    IF c = " " THEN <<"%", "2", "0">>
    ELSE IF c = "#" THEN <<"%", "2", "3">>
    ELSE <<c>>

RECURSIVE Quote(_)
Quote(s) == IF s = <<>> THEN <<>> ELSE QuoteChar(Head(s)) \o Quote(Tail(s))

\* get_public_url: the parts of the f-string
get_public_url(config, tier, path) ==
    LET c == TierCfg(config, tier)
    IN [kind |-> "public",
        protocol |-> IF c.use_ssl THEN "https" ELSE "http",
        endpoint |-> c.endpoint,
        port_suffix |-> IF c.port \in {443, 80} THEN None ELSE Some(c.port),
        bucket |-> c.bucket,
        path |-> Quote(path),
        expires_in |-> None]

\* get_presigned_url: the client signs a GET of (bucket, key) for expires_in
\* seconds against the endpoint _create_client connected it to
get_presigned_url(config, tier, path, expires_in) ==
    LET c == TierCfg(config, tier)
        protocol == IF c.use_ssl THEN "https" ELSE "http"
        is_standard_port == (protocol = "http" /\ c.port = 80)
                            \/ (protocol = "https" /\ c.port = 443)
    IN [kind |-> "presigned",
        protocol |-> protocol,
        endpoint |-> c.endpoint,
        port_suffix |-> IF is_standard_port THEN None ELSE Some(c.port),
        bucket |-> c.bucket,
        path |-> path,
        expires_in |-> Some(expires_in)]

\* S3StrataAdvancedOptions.default_presigned_url_expiration
DefaultExpiration == 14400

\* the value that stands for a raised exception where a URL was expected
UrlError == [kind |-> "error"]

\* FileManager.get_url
get_url(config, file, expires_in) ==
    LET visibility == get_visibility_from_path(file.path)
    IN IF visibility = "INVALID" THEN UrlError
       ELSE IF visibility = "PUBLIC"
       THEN get_public_url(config, file.storage_tier, file.path)
       ELSE get_presigned_url(config, file.storage_tier, file.path,
                              IF expires_in # None /\ expires_in[1] # 0
                              THEN expires_in[1] ELSE DefaultExpiration)

(***************************************************************************)
(* The state.                                                              *)
(***************************************************************************)
VARIABLES
    \* the S3StrataConfig the FileManager was constructed with
    config,
    \* datetime.now()
    now,
    \* the buckets: objects[bucket] maps each key present to its bytes
    objects,
    \* the physical_files table: records[id] for each row present
    records,
    \* the next autoincrement id
    nextId,
    \* each coroutine's position
    pc,
    \* each coroutine's local variables, its outcome included
    loc,
    \* backend calls that raised so far
    faults,
    \* the bytes each record was uploaded with
    origin

vars == <<config, now, objects, records, nextId, pc, loc, faults, origin>>

Tasks == {1, 2}

\* the path suffixes callers supply; the k-th is SuffixSeq[k]
SuffixSeq == <<<<"a">>, <<"b">>, <<"c">>, <<"d">>>>

Suffixes == {SuffixSeq[1], SuffixSeq[2]}

FileNames == {<<"f">>}

\* hot durations in seconds: already expired, and one tick ahead
HotDurations == {-1, 1}

\* keys of objects that other writers put in the buckets
ForeignKeys == {<<"A">>, <<"C">>}

Configs == {SharedConfig, SeparateConfig}

Buckets == {Bucket(config, tier) : tier \in StorageTier}

\* partial functions
Put(f, k, v) == [x \in DOMAIN f \cup {k} |-> IF x = k THEN v ELSE f[x]]

Drop(f, k) == [x \in DOMAIN f \ {k} |-> f[x]]

Empty == [x \in {} |-> {}]

HasObject(tier, path) == path \in DOMAIN objects[Bucket(config, tier)]

ObjectAt(tier, path) == objects[Bucket(config, tier)][path]

\* the bytes at (tier, path), None when there is no object
Stored(tier, path) ==
    IF HasObject(tier, path) THEN Some(ObjectAt(tier, path)) ELSE None

InitIn(configs) ==
    /\ config \in configs
    /\ get_tier_config(config, "HOT").ok
    /\ get_tier_config(config, "COLD").ok
    /\ now = 0
    /\ objects = [b \in Buckets |-> Empty]
    /\ records = Empty
    /\ nextId = 1
    /\ pc = [t \in Tasks |-> "idle"]
    /\ loc = [t \in Tasks |-> [op |-> "none"]]
    /\ faults = 0
    /\ origin = Empty

Init == InitIn(Configs)

(***************************************************************************)
(* The backend: S3 and the SQLAlchemy adapter.                             *)
(***************************************************************************)
\* client.put_object
S3Put(objs, bucket, key, data) == [objs EXCEPT ![bucket] = Put(@, key, data)]

\* client.delete_object: deleting an absent key is no error
S3Delete(objs, bucket, key) == [objs EXCEPT ![bucket] = Drop(@, key)]

\* PhysicalFileModel.path is unique=True: a commit that would give two rows
\* one path raises
PathTaken(recs, id, path) ==
    \E i \in DOMAIN recs : i # id /\ recs[i].path = path

\* SQLAlchemyAdapter.create: the row the commit inserts
NewRow(id, tier, filename, path, hot_until) ==
    [id |-> id, storage_tier |-> tier, filename |-> filename, path |-> path,
     hot_until |-> hot_until]

\* SQLAlchemyAdapter.update: a field is written only when its argument is
\* not None
UpdatedRow(row, args) ==
    [row EXCEPT !.storage_tier = IF args.storage_tier # None
                                 THEN args.storage_tier[1] ELSE @,
                !.path = IF args.path # None THEN args.path[1] ELSE @,
                !.hot_until = IF args.hot_until # None THEN args.hot_until
                              ELSE @]

\* the keyword arguments of an adapter.update call, each None by default
UpdateArgs(storage_tier, path, hot_until) ==
    [storage_tier |-> storage_tier, path |-> path, hot_until |-> hot_until]

\* a query for the HOT rows, whatever their hot_until
ExpiredAnyHot(recs, t) ==
    {i \in DOMAIN recs : recs[i].storage_tier = "HOT"}

\* SQLAlchemyAdapter.find_expired_hot_files: a NULL hot_until matches nothing
Expired(recs, t) ==
    {i \in DOMAIN recs : /\ recs[i].storage_tier = "HOT"
                         /\ recs[i].hot_until # None
                         /\ recs[i].hot_until[1] <= t}

\* the rows of a query, in primary-key order
RECURSIVE Rows(_, _)
Rows(recs, ids) ==
    IF ids = {} THEN <<>>
    ELSE LET i == CHOOSE x \in ids : \A y \in ids : x <= y
         IN <<recs[i]>> \o Rows(recs, ids \ {i})

\* the caller obtains the record it passes from the store (get_by_id,
\* list_files)
Files == {records[i] : i \in DOMAIN records}

NoFile == NewRow(0, "HOT", <<>>, <<>>, None)

\* the buckets and the records as a call finds them
Snapshot == Some([objects |-> objects, records |-> records])

(***************************************************************************)
(* Reconciliation: list_objects and list_orphan_objects, as functions of   *)
(* what the three reads return.                                            *)
(***************************************************************************)
\* ObjectStoreService.list_objects: the keys of the tier's bucket, under the
\* prefix when one is given
list_objects(objs, tier, prefix) ==
    {k \in DOMAIN objs[Bucket(config, tier)] :
        Truthy(prefix) => StartsWith(k, prefix[1])}

OrphanObject(key, tier) ==
    [key |-> key, tier |-> tier, bucket |-> TierCfg(config, tier).bucket]

\* the orphans of each tier, compared with the records of that tier alone
OrphansScopedByTier(hot_objects, cold_objects, db_files) ==
    {OrphanObject(k, "HOT") :
        k \in {o \in hot_objects :
                  o \notin {f.path : f \in {g \in db_files :
                                               g.storage_tier = "HOT"}}}}
    \cup
    {OrphanObject(k, "COLD") :
        k \in {o \in cold_objects :
                  o \notin {f.path : f \in {g \in db_files :
                                               g.storage_tier = "COLD"}}}}

\* list_orphan_objects, from hot_objects, cold_objects and db_files
Orphans(hot_objects, cold_objects, db_files) ==
    LET db_paths == {file.path : file \in db_files}
    IN {OrphanObject(k, "HOT") : k \in {o \in hot_objects : o \notin db_paths}}
       \cup
       {OrphanObject(k, "COLD") : k \in {o \in cold_objects : o \notin db_paths}}

\* what list_orphan_objects() returns when nothing runs beside it
list_orphan_objects(objs, recs, prefix) ==
    Orphans(list_objects(objs, "HOT", prefix),
            list_objects(objs, "COLD", prefix),
            {recs[i] : i \in DOMAIN recs})

\* the characters of the keys of the model, in code point order
CodePoints ==
    <<"-", "/", "0", "1", "2", "3", "4", "5", "6", "7", "8", "9", "A", "C", "N",
      "a", "b", "c", "d", "e", "f", "i", "l", "n", "o", "p", "r", "t", "u",
      "v">>

ord(c) == CHOOSE k \in DOMAIN CodePoints : CodePoints[k] = c

\* a < b for two strings
RECURSIVE StrLess(_, _)
StrLess(a, b) ==
    IF b = <<>> THEN FALSE
    ELSE IF a = <<>> THEN TRUE
    ELSE IF a[1] = b[1] THEN StrLess(Tail(a), Tail(b))
    ELSE ord(a[1]) < ord(b[1])

\* list_objects_v2 returns the keys of a bucket in the order of their bytes
RECURSIVE InKeyOrder(_)
InKeyOrder(keys) ==
    IF keys = {} THEN <<>>
    ELSE LET k == CHOOSE x \in keys : \A y \in keys \ {x} : StrLess(x, y)
         IN <<k>> \o InKeyOrder(keys \ {k})

RECURSIVE Tagged(_, _)
Tagged(keys, tier) ==
    IF keys = <<>> THEN <<>>
    ELSE <<OrphanObject(Head(keys), tier)>> \o Tagged(Tail(keys), tier)

\* hot_orphans + cold_orphans: the list list_orphan_objects returns
OrphanList(orphans) ==
    Tagged(InKeyOrder({o.key : o \in {x \in orphans : x.tier = "HOT"}}), "HOT")
    \o Tagged(InKeyOrder({o.key : o \in {x \in orphans : x.tier = "COLD"}}),
              "COLD")

\* a filter that lets the orphans of both tiers through
FilteredAnyTier(orphans, tier) == orphans

\* [o for o in orphans if o.tier == options.tier] if options.tier else orphans
Filtered(orphans, tier) ==
    SelectSeq(orphans, LAMBDA o : tier = None \/ o.tier = tier[1])

\* path.split("/")[-1]
extract_filename(path) ==
    LET slashes == {k \in DOMAIN path : path[k] = "/"}
    IN IF slashes = {} THEN path
       ELSE SliceFrom(path, CHOOSE k \in slashes : \A j \in slashes : j <= k)

(***************************************************************************)
(* Coroutines.                                                             *)
(***************************************************************************)
\* the local variables of a FileManager method, at its entry
Frame(op) ==
    [op |-> op, file |-> NoFile, move_file |-> TRUE,
     src |-> <<"HOT", <<>>>>, dst |-> <<"HOT", <<>>>>, data |-> 0,
     args |-> UpdateArgs(None, None, None), row |-> NoFile,
     expired |-> <<>>, i |-> 0, moved_count |-> 0, failed |-> {},
     prefix |-> None, hot_objects |-> {}, cold_objects |-> {},
     target |-> "", duration |-> None, called_at |-> 0,
     tier |-> None, dry_run |-> FALSE, set_hot_until |-> FALSE,
     orphans |-> <<>>, result |-> None, before |-> None, error |-> None,
     objects |-> <<>>, continuation_token |-> None, found_at |-> 0,
     had |-> None, calls |-> <<>>, status |-> "run", at |-> "", ret |-> None]

Called(l, call) == [l EXCEPT !.calls = Append(@, call)]

\* a position and the locals to continue with
At(label, l) == [pc |-> label, loc |-> l]

Goto(t, k) ==
    /\ pc' = [pc EXCEPT ![t] = k.pc]
    /\ loc' = [loc EXCEPT ![t] = k.loc]

\* return v
Returned(l, v) == At("done", [l EXCEPT !.status = "ok", !.ret = v])

\* the method ends with the exception raised at `step`
Propagated(l, step) == At("done", [l EXCEPT !.status = "raised", !.at = step])

\* set_tier without its "no change needed" return
SetTierEnterWithoutNoOp(l0, file, new_tier, move_file, hot_duration, t) ==
    [ended |-> FALSE, pc |-> IF move_file THEN "mv_get" ELSE "update",
     loc |-> [l0 EXCEPT !.file = file, !.move_file = move_file,
                        !.target = new_tier, !.duration = hot_duration,
                        !.called_at = t,
                        !.src = <<file.storage_tier, file.path>>,
                        !.dst = <<new_tier, file.path>>,
                        !.had = Stored(file.storage_tier, file.path),
                        !.calls = <<>>,
                        !.args = UpdateArgs(Some(new_tier), None,
                                     IF new_tier = "HOT" /\ hot_duration # None
                                     THEN Some(t + hot_duration[1])
                                     ELSE None)]]

\* set_tier moving the object whatever move_file says
SetTierEnterAlwaysMoving(l0, file, new_tier, move_file, hot_duration, t) ==
    LET l == [l0 EXCEPT !.target = new_tier, !.duration = hot_duration,
                        !.called_at = t]
    IN
    IF file.storage_tier = new_tier
    THEN [ended |-> TRUE, ret |-> Some(file), loc |-> [l EXCEPT !.file = file]]
    ELSE LET hot_until == IF new_tier = "HOT" /\ hot_duration # None
                          THEN Some(t + hot_duration[1]) ELSE None
             update_hot_until == IF new_tier = "HOT" THEN hot_duration # None
                                 ELSE TRUE
         IN [ended |-> FALSE, pc |-> "mv_get",
             loc |-> [l EXCEPT !.file = file, !.move_file = move_file,
                               !.src = <<file.storage_tier, file.path>>,
                               !.dst = <<new_tier, file.path>>,
                               !.had = Stored(file.storage_tier, file.path),
                               !.calls = <<>>,
                               !.args =
                                   IF update_hot_until
                                   THEN UpdateArgs(Some(new_tier), None,
                                                   hot_until)
                                   ELSE UpdateArgs(Some(new_tier), None, None)]]

\* set_tier, from its entry to its first await
SetTierEnter(l0, file, new_tier, move_file, hot_duration, t) ==
    LET l == [l0 EXCEPT !.target = new_tier, !.duration = hot_duration,
                        !.called_at = t]
    IN
    IF file.storage_tier = new_tier
    THEN [ended |-> TRUE, ret |-> Some(file), loc |-> [l EXCEPT !.file = file]]
    ELSE LET hot_until == IF new_tier = "HOT" /\ hot_duration # None
                          THEN Some(t + hot_duration[1]) ELSE None
             update_hot_until == IF new_tier = "HOT" THEN hot_duration # None
                                 ELSE TRUE
         IN [ended |-> FALSE, pc |-> IF move_file THEN "mv_get" ELSE "update",
             loc |-> [l EXCEPT !.file = file, !.move_file = move_file,
                               !.src = <<file.storage_tier, file.path>>,
                               !.dst = <<new_tier, file.path>>,
                               !.had = Stored(file.storage_tier, file.path),
                               !.calls = <<>>,
                               !.args =
                                   IF update_hot_until
                                   THEN UpdateArgs(Some(new_tier), None,
                                                   hot_until)
                                   ELSE UpdateArgs(Some(new_tier), None, None)]]

\* archive_expired_hot_files: the for loop, from the top of iteration i
RECURSIVE ArchiveLoop(_, _, _)
ArchiveLoop(l, i, t) ==
    IF i > Len(l.expired) THEN Returned(l, Some(l.moved_count))
    ELSE LET e == SetTierEnter([l EXCEPT !.i = i], l.expired[i], "COLD", TRUE,
                               None, t)
         IN IF e.ended
            THEN ArchiveLoop([e.loc EXCEPT !.moved_count = @ + 1], i + 1, t)
            ELSE At(e.pc, e.loc)

\* set_tier, set_visibility or set_hot_duration returns v: to the caller, or
\* to the loop of archive_expired_hot_files, which counts it
Finished(l, v, t) ==
    IF l.op = "archive"
    THEN ArchiveLoop([l EXCEPT !.moved_count = @ + 1], l.i + 1, t)
    ELSE Returned(l, v)

\* DeleteOrphanResult(deleted=0, failed=0, deleted_paths=[], errors=[],
\* dry_run=options.dry_run)
DeleteOrphanResult(dry_run) ==
    [deleted |-> 0, failed |-> 0, deleted_paths |-> <<>>, errors |-> <<>>,
     dry_run |-> dry_run]

\* AdoptOrphanResult(adopted=0, failed=0, adopted_file_ids=[], errors=[])
AdoptOrphanResult ==
    [adopted |-> 0, failed |-> 0, adopted_file_ids |-> <<>>, errors |-> <<>>]

\* result.deleted += 1; result.deleted_paths.append(orphan.key)
CountDeleted(l) ==
    [l EXCEPT !.result.deleted = @ + 1,
              !.result.deleted_paths = Append(@, l.orphans[l.i].key)]

\* result.adopted += 1; result.adopted_file_ids.append(physical_file.id)
CountAdopted(l, id) ==
    [l EXCEPT !.result.adopted = @ + 1,
              !.result.adopted_file_ids = Append(@, id)]

\* except Exception: result.failed += 1; result.errors.append({"path": ...})
CountFailed(l) ==
    [l EXCEPT !.result.failed = @ + 1,
              !.result.errors = Append(@, [path |-> l.orphans[l.i].key])]

\* a delete_orphan_objects that ignores dry_run
DeleteLoopAlwaysDeleting(l, i) ==
    IF i > Len(l.orphans) THEN Returned(l, Some(l.result))
    ELSE At("do_delete", [l EXCEPT !.i = i])

\* delete_orphan_objects: the for loop, from the top of iteration i.  A dry
\* run awaits nothing
RECURSIVE DeleteLoop(_, _)
DeleteLoop(l, i) ==
    IF i > Len(l.orphans) THEN Returned(l, Some(l.result))
    ELSE IF l.dry_run THEN DeleteLoop(CountDeleted([l EXCEPT !.i = i]), i + 1)
    ELSE At("do_delete", [l EXCEPT !.i = i])

\* an adopt_orphan_objects that gives every record the default tier
AdoptLoopDefaultTier(l, i, t) ==
    IF i > Len(l.orphans) THEN Returned(l, Some(l.result))
    ELSE At("ad_create",
            [l EXCEPT !.i = i,
                      !.row = NewRow(0, "HOT", extract_filename(l.orphans[i].key),
                                     l.orphans[i].key, None)])

\* adopt_orphan_objects: the for loop, from the top of iteration i to the
\* await of adapter.create
AdoptLoop(l, i, t) ==
    IF i > Len(l.orphans) THEN Returned(l, Some(l.result))
    ELSE LET orphan == l.orphans[i]
             filename == extract_filename(orphan.key)
             hot_until == IF /\ orphan.tier = "HOT"
                             /\ l.set_hot_until
                             /\ l.duration # None
                          THEN Some(t + l.duration[1]) ELSE None
         IN At("ad_create",
               [l EXCEPT !.i = i,
                         !.row = NewRow(0, orphan.tier, filename, orphan.key,
                                        hot_until)])

\* list_orphan_objects has its list: it returns it, or delete_orphan_objects
\* and adopt_orphan_objects filter it and start their loops
Listed(l, orphans, t) ==
    IF l.op = "delete_orphan_objects"
    THEN DeleteLoop([l EXCEPT !.orphans = Filtered(OrphanList(orphans), l.tier),
                              !.result = DeleteOrphanResult(l.dry_run)], 1)
    ELSE IF l.op = "adopt_orphan_objects"
    THEN AdoptLoop([l EXCEPT !.orphans = Filtered(OrphanList(orphans), l.tier),
                             !.result = AdoptOrphanResult], 1, t)
    ELSE Returned(l, Some(orphans))

\* batches without their try blocks: the exception ends them
ThrownOutOfBatch(l, step, t) ==
    IF l.op = "archive" /\ step # "find_expired_hot_files"
    THEN ArchiveLoop([l EXCEPT !.failed = @ \cup {l.file.id}], l.i + 1, t)
    ELSE Propagated(l, step)

\* a sweep without its try block: the exception ends it
ThrownOutOfSweep(l, step, t) == Propagated(l, step)

\* an exception raised at `step`: it propagates, except out of the try block
\* of archive_expired_hot_files, which goes on with the next file
Thrown(l, step, t) ==
    IF l.op = "archive" /\ step # "find_expired_hot_files"
    THEN ArchiveLoop([l EXCEPT !.failed = @ \cup {l.file.id}], l.i + 1, t)
    ELSE IF l.op = "delete_orphan_objects" /\ step = "delete_object"
    THEN DeleteLoop(CountFailed(l), l.i + 1)
    ELSE IF l.op = "adopt_orphan_objects" /\ step = "create"
    THEN AdoptLoop(CountFailed(l), l.i + 1, t)
    ELSE Propagated(l, step)

\* the backend call a coroutine is about to issue
CallAt(label) ==
    CASE label = "up_put" -> "put_object"
      [] label = "up_create" -> "create"
      [] label = "del_object" -> "delete_object"
      [] label = "del_record" -> "delete"
      [] label = "mv_get" -> "get_object"
      [] label = "mv_put" -> "put_object"
      [] label = "mv_del" -> "delete_object"
      [] label = "update" -> "update"
      [] label = "ar_find" -> "find_expired_hot_files"
      [] label = "lo_hot" -> "list_objects_v2"
      [] label = "lo_cold" -> "list_objects_v2"
      [] label = "lo_db" -> "find_all"
      [] label = "do_delete" -> "delete_object"
      [] label = "ad_create" -> "create"
      [] OTHER -> "none"

\* a store without the unique constraint on path
CanReturnWithoutUnique(t) ==
    CASE pc[t] = "mv_get" -> HasObject(loc[t].src[1], loc[t].src[2])
      [] pc[t] = "del_record" -> loc[t].file.id \in DOMAIN records
      [] pc[t] = "update" -> loc[t].file.id \in DOMAIN records
      [] OTHER -> TRUE

\* the backend call the coroutine is at can return: the others can only
\* raise.  get_object raises NoSuchKey for an absent key; a commit raises
\* when it would give two rows one path; scalar_one() raises when the row of
\* an update or a delete is gone
CanReturn(t) ==
    CASE pc[t] = "mv_get" -> HasObject(loc[t].src[1], loc[t].src[2])
      [] pc[t] = "up_create" -> ~PathTaken(records, 0, loc[t].row.path)
      [] pc[t] = "ad_create" -> ~PathTaken(records, 0, loc[t].row.path)
      [] pc[t] = "del_record" -> loc[t].file.id \in DOMAIN records
      [] pc[t] = "update" ->
            /\ loc[t].file.id \in DOMAIN records
            /\ ~PathTaken(records, loc[t].file.id,
                          UpdatedRow(records[loc[t].file.id],
                                     loc[t].args).path)
      [] OTHER -> TRUE

\* a backend call raises: one that cannot return, or any of them on a
\* transport or database error
Raise(t) ==
    /\ CallAt(pc[t]) # "none"
    /\ faults < MaxFaults
    /\ faults' = faults + 1
    /\ Goto(t, Thrown(Called(loc[t], CallAt(pc[t])), CallAt(pc[t]), now))
    /\ UNCHANGED <<config, now, objects, records, nextId, origin>>

\* the backend call the coroutine is at cannot return, and raises: no fault
\* of the backend, but its answer to the call
Refused(t) ==
    /\ CallAt(pc[t]) # "none"
    /\ ~CanReturn(t)
    /\ Goto(t, Thrown(Called(loc[t], CallAt(pc[t])), CallAt(pc[t]), now))
    /\ UNCHANGED <<config, now, objects, records, nextId, faults, origin>>

(***************************************************************************)
(* Variants of the steps below that the properties must tell apart from    *)
(* them.                                                                   *)
(***************************************************************************)
\* a copy that removes the source as it writes the destination
MovePutRemovingSource(t) ==
    /\ pc[t] = "mv_put"
    /\ objects' = S3Put(S3Delete(objects, Bucket(config, loc[t].src[1]),
                                 loc[t].src[2]),
                        Bucket(config, loc[t].dst[1]), loc[t].dst[2],
                        loc[t].data)
    /\ Goto(t, At("mv_del", Called(loc[t], "put_object")))
    /\ UNCHANGED <<config, now, records, nextId, faults, origin>>

\* a delete that removes the record as it starts
DeleteRecordFirst(t) ==
    /\ pc[t] = "idle"
    /\ \E file \in Files :
        /\ records' = Drop(records, file.id)
        /\ Goto(t, At("del_object",
                [Frame("delete") EXCEPT
                    !.file = file,
                    !.had = Stored(file.storage_tier, file.path)]))
    /\ UNCHANGED <<config, now, objects, nextId, faults, origin>>

\* an object delete that returns without deleting
DeleteObjectSkipped(t) ==
    /\ pc[t] = "del_object"
    /\ Goto(t, At("del_record", Called(loc[t], "delete_object")))
    /\ UNCHANGED <<config, now, objects, records, nextId, faults, origin>>

\* a move that returns after the copy
MovePutSkippingDelete(t) ==
    /\ pc[t] = "mv_put"
    /\ objects' = S3Put(objects, Bucket(config, loc[t].dst[1]), loc[t].dst[2],
                        loc[t].data)
    /\ Goto(t, At("update", Called(loc[t], "put_object")))
    /\ UNCHANGED <<config, now, records, nextId, faults, origin>>

\* set_hot_duration without its check of the record's tier
SetHotDurationAnyTier(t, durations) ==
    /\ pc[t] = "idle"
    /\ \E file \in Files, duration \in {None} \cup {Some(d) : d \in durations} :
        Goto(t, At("update",
            [Frame("set_hot_duration") EXCEPT
                !.file = file, !.duration = duration, !.called_at = now,
                !.args = UpdateArgs(None, None,
                             IF duration = None THEN None
                             ELSE Some(now + duration[1]))]))
    /\ UNCHANGED <<config, now, objects, records, nextId, faults, origin>>

(***************************************************************************)
(* FileManager.upload                                                      *)
(***************************************************************************)
\* str(uuid.uuid4()): a token no earlier call has drawn.  Every upload ends
\* with a new record or a raised call, so the two counters name it
Digits == <<"0", "1", "2", "3", "4", "5", "6", "7", "8", "9">>

uuid4 == <<"u", Digits[(nextId % 10) + 1], Digits[(faults % 10) + 1]>>

\* in: the sets the caller's options are drawn from, and how many records
\* the behaviour may create.  Past that many, an upload is followed only
\* when its create cannot return (the path is another row's) and a call may
\* still raise.  The bytes uploaded are named after the id the record is to
\* get.
UploadStart(t, in) ==
    /\ pc[t] = "idle"
    /\ \E tierOpt \in in.tiers, visOpt \in in.visibilities,
          filename \in FileNames, path_suffix \in in.suffixes,
          hot_duration \in {None} \cup {Some(d) : d \in in.durations} :
        LET tier == IF tierOpt # None THEN tierOpt[1] ELSE "HOT"
            visibility == IF visOpt # None THEN visOpt[1] ELSE "PRIVATE"
            \* options.path_suffix or f"{uuid.uuid4()}-{filename}"
            suffix == IF path_suffix # <<>> THEN path_suffix
                      ELSE uuid4 \o <<"-">> \o filename
            full_path == build_path(config, tier, visibility, suffix)
            hot_until == IF tier = "HOT" /\ hot_duration # None
                         THEN Some(now + hot_duration[1]) ELSE None
        IN /\ \/ nextId <= in.max
              \/ PathTaken(records, 0, full_path) /\ faults < MaxFaults
           /\ Goto(t, At("up_put",
                [Frame("upload") EXCEPT
                    !.dst = <<tier, full_path>>, !.data = nextId,
                    !.row = NewRow(0, tier, filename, full_path, hot_until)]))
    /\ UNCHANGED <<config, now, objects, records, nextId, faults, origin>>

\* await self.objectstore.upload(tier, full_path, data)
UploadPut(t) ==
    /\ pc[t] = "up_put"
    /\ objects' = S3Put(objects, Bucket(config, loc[t].dst[1]), loc[t].dst[2],
                        loc[t].data)
    /\ Goto(t, At("up_create", Called(loc[t], "put_object")))
    /\ UNCHANGED <<config, now, records, nextId, faults, origin>>

\* await self.adapter.create(...) returns the new row
UploadCreate(t) ==
    /\ pc[t] = "up_create"
    /\ CanReturn(t)
    /\ LET row == [loc[t].row EXCEPT !.id = nextId]
       IN /\ records' = Put(records, nextId, row)
          /\ origin' = Put(origin, nextId, loc[t].data)
          /\ nextId' = nextId + 1
          /\ Goto(t, Returned(Called(loc[t], "create"), Some(row)))
    /\ UNCHANGED <<config, now, objects, faults>>

(***************************************************************************)
(* FileManager.delete                                                      *)
(***************************************************************************)
DeleteStart(t) ==
    /\ pc[t] = "idle"
    /\ \E file \in Files :
        Goto(t, At("del_object",
             [Frame("delete") EXCEPT
                 !.file = file,
                 !.had = Stored(file.storage_tier, file.path)]))
    /\ UNCHANGED <<config, now, objects, records, nextId, faults, origin>>

\* await self.objectstore.delete(tier, file.path)
DeleteObject(t) ==
    /\ pc[t] = "del_object"
    /\ objects' = S3Delete(objects, Bucket(config, loc[t].file.storage_tier),
                           loc[t].file.path)
    /\ Goto(t, At("del_record", Called(loc[t], "delete_object")))
    /\ UNCHANGED <<config, now, records, nextId, faults, origin>>

\* await self.adapter.delete(file.id) returns
DeleteRecord(t) ==
    /\ pc[t] = "del_record"
    /\ CanReturn(t)
    /\ records' = Drop(records, loc[t].file.id)
    /\ Goto(t, Returned(Called(loc[t], "delete"), None))
    /\ UNCHANGED <<config, now, objects, nextId, faults, origin>>

(***************************************************************************)
(* ObjectStoreService.move, as set_visibility and set_tier await it        *)
(***************************************************************************)
\* copy: data = await self.download(source_tier, source_path)
MoveGet(t) ==
    /\ pc[t] = "mv_get"
    /\ CanReturn(t)
    /\ Goto(t, At("mv_put",
            [Called(loc[t], "get_object") EXCEPT
                !.data = ObjectAt(loc[t].src[1], loc[t].src[2])]))
    /\ UNCHANGED <<config, now, objects, records, nextId, faults, origin>>

\* copy: await self.upload(dest_tier, dest_path, data)
MovePut(t) ==
    /\ pc[t] = "mv_put"
    /\ objects' = S3Put(objects, Bucket(config, loc[t].dst[1]), loc[t].dst[2],
                        loc[t].data)
    /\ Goto(t, At("mv_del", Called(loc[t], "put_object")))
    /\ UNCHANGED <<config, now, records, nextId, faults, origin>>

\* move: await self.delete(source_tier, source_path)
MoveDelete(t) ==
    /\ pc[t] = "mv_del"
    /\ objects' = S3Delete(objects, Bucket(config, loc[t].src[1]),
                           loc[t].src[2])
    /\ Goto(t, At("update", Called(loc[t], "delete_object")))
    /\ UNCHANGED <<config, now, records, nextId, faults, origin>>

\* await self.adapter.update(file.id, ...) returns the updated row
AdapterUpdate(t) ==
    /\ pc[t] = "update"
    /\ CanReturn(t)
    /\ LET id == loc[t].file.id
           row == UpdatedRow(records[id], loc[t].args)
       IN /\ records' = [records EXCEPT ![id] = row]
          /\ Goto(t, Finished(Called(loc[t], "update"), Some(row), now))
    /\ UNCHANGED <<config, now, objects, nextId, faults, origin>>

(***************************************************************************)
(* FileManager.set_visibility, set_tier, set_hot_duration, get_url         *)
(***************************************************************************)
SetVisibilityStart(t, moves) ==
    /\ pc[t] = "idle"
    /\ \E file \in Files, new_visibility \in FileVisibility, move_file \in moves :
        LET l == [Frame("set_visibility") EXCEPT
                     !.file = file, !.move_file = move_file,
                     !.target = new_visibility,
                     !.had = Stored(file.storage_tier, file.path)]
            tier == file.storage_tier
            current_visibility == get_visibility_from_path(file.path)
            current_prefix == get_path_prefix(config, tier, current_visibility)
        IN IF current_visibility = "INVALID"
           THEN Goto(t, Propagated(l, "_get_visibility_from_path"))
           ELSE IF current_visibility = new_visibility
           THEN Goto(t, Returned(l, Some(file)))
           ELSE IF current_prefix = None
           THEN Goto(t, Propagated(l, "len"))
           ELSE LET path_suffix ==
                        SliceFrom(file.path, Len(current_prefix[1]) + 1)
                    new_path ==
                        build_path(config, tier, new_visibility, path_suffix)
                IN Goto(t, At(IF move_file THEN "mv_get" ELSE "update",
                        [l EXCEPT !.src = <<tier, file.path>>,
                                  !.dst = <<tier, new_path>>,
                                  !.args = UpdateArgs(None, Some(new_path),
                                                      None)]))
    /\ UNCHANGED <<config, now, objects, records, nextId, faults, origin>>

SetTierStart(t, moves, durations) ==
    /\ pc[t] = "idle"
    /\ \E file \in Files, new_tier \in StorageTier, move_file \in moves,
          hot_duration \in {None} \cup {Some(d) : d \in durations} :
        LET e == SetTierEnter(Frame("set_tier"), file, new_tier, move_file,
                              hot_duration, now)
        IN IF e.ended THEN Goto(t, Returned(e.loc, e.ret))
           ELSE Goto(t, At(e.pc, e.loc))
    /\ UNCHANGED <<config, now, objects, records, nextId, faults, origin>>

SetHotDurationStart(t, durations) ==
    /\ pc[t] = "idle"
    /\ \E file \in Files, duration \in {None} \cup {Some(d) : d \in durations} :
        LET l == [Frame("set_hot_duration") EXCEPT
                     !.file = file, !.duration = duration, !.called_at = now]
            hot_until == IF duration = None THEN None
                         ELSE IF duration[1] = 0 THEN Some(now)
                         ELSE Some(now + duration[1])
        IN IF file.storage_tier # "HOT"
           THEN Goto(t, Propagated(l, "tier"))
           ELSE Goto(t, At("update",
                    [l EXCEPT !.args = UpdateArgs(None, None, hot_until)]))
    /\ UNCHANGED <<config, now, objects, records, nextId, faults, origin>>

\* get_url issues no backend call: the client signs locally
GetUrl(t) ==
    /\ pc[t] = "idle"
    /\ \E file \in Files, expires_in \in {None, Some(60)} :
        LET l == [Frame("get_url") EXCEPT !.file = file]
            url == get_url(config, file, expires_in)
        IN IF url = UrlError
           THEN Goto(t, Propagated(l, "_get_visibility_from_path"))
           ELSE Goto(t, Returned(l, Some(url)))
    /\ UNCHANGED <<config, now, objects, records, nextId, faults, origin>>

(***************************************************************************)
(* FileManager.archive_expired_hot_files                                   *)
(***************************************************************************)
ArchiveStart(t) ==
    /\ pc[t] = "idle"
    /\ Goto(t, At("ar_find", Frame("archive")))
    /\ UNCHANGED <<config, now, objects, records, nextId, faults, origin>>

\* expired_files = await self.adapter.find_expired_hot_files()
ArchiveFind(t) ==
    /\ pc[t] = "ar_find"
    /\ Goto(t, ArchiveLoop(
            [Called(loc[t], "find_expired_hot_files") EXCEPT
                !.expired = Rows(records, Expired(records, now)),
                !.before = Snapshot, !.found_at = now], 1, now))
    /\ UNCHANGED <<config, now, objects, records, nextId, faults, origin>>

(***************************************************************************)
(* FileManager.list_orphan_objects                                         *)
(***************************************************************************)
ListOrphansStart(t, prefixes) ==
    /\ pc[t] = "idle"
    /\ \E prefix \in prefixes :
        Goto(t, At("lo_hot", [Frame("list_orphan_objects") EXCEPT
                                 !.prefix = prefix]))
    /\ UNCHANGED <<config, now, objects, records, nextId, faults, origin>>

\* asyncio.gather starts the three reads in order; the two listings block
ListHot(t) ==
    /\ pc[t] = "lo_hot"
    /\ Goto(t, At("lo_cold",
            [Called(loc[t], "list_objects_v2") EXCEPT
                !.hot_objects = list_objects(objects, "HOT", loc[t].prefix)]))
    /\ UNCHANGED <<config, now, objects, records, nextId, faults, origin>>

ListCold(t) ==
    /\ pc[t] = "lo_cold"
    /\ Goto(t, At("lo_db",
            [Called(loc[t], "list_objects_v2") EXCEPT
                !.cold_objects = list_objects(objects, "COLD", loc[t].prefix)]))
    /\ UNCHANGED <<config, now, objects, records, nextId, faults, origin>>

\* self.adapter.find_all(), then the two list comprehensions
ListFindAll(t) ==
    /\ pc[t] = "lo_db"
    /\ Goto(t, Listed(Called(loc[t], "find_all"),
                      Orphans(loc[t].hot_objects, loc[t].cold_objects, Files),
                      now))
    /\ UNCHANGED <<config, now, objects, records, nextId, faults, origin>>

(***************************************************************************)
(* FileManager.delete_orphan_objects, adopt_orphan_objects                 *)
(***************************************************************************)
DeleteOrphansStart(t, prefixes, tiers, dry_runs) ==
    /\ pc[t] = "idle"
    /\ \E prefix \in prefixes, tier \in tiers, dry_run \in dry_runs :
        Goto(t, At("lo_hot", [Frame("delete_orphan_objects") EXCEPT
                                 !.prefix = prefix, !.tier = tier,
                                 !.dry_run = dry_run, !.before = Snapshot]))
    /\ UNCHANGED <<config, now, objects, records, nextId, faults, origin>>

\* await self.objectstore.delete(orphan.tier, orphan.key)
OrphanDelete(t) ==
    /\ pc[t] = "do_delete"
    /\ LET orphan == loc[t].orphans[loc[t].i]
       IN objects' = S3Delete(objects, Bucket(config, orphan.tier), orphan.key)
    /\ Goto(t, DeleteLoop(CountDeleted(Called(loc[t], "delete_object")),
                          loc[t].i + 1))
    /\ UNCHANGED <<config, now, records, nextId, faults, origin>>

\* hots: the pairs (set_hot_until, hot_duration) the options are drawn from
AdoptOrphansStart(t, prefixes, tiers, hots) ==
    /\ pc[t] = "idle"
    /\ \E prefix \in prefixes, tier \in tiers, hot \in hots :
        Goto(t, At("lo_hot", [Frame("adopt_orphan_objects") EXCEPT
                                 !.prefix = prefix, !.tier = tier,
                                 !.set_hot_until = hot[1],
                                 !.duration = hot[2],
                                 !.before = Snapshot]))
    /\ UNCHANGED <<config, now, objects, records, nextId, faults, origin>>

\* a create that inserts the row whatever the table holds
AdoptCreateUnchecked(t) ==
    /\ pc[t] = "ad_create"
    /\ LET row == [loc[t].row EXCEPT !.id = nextId]
           held == Stored(row.storage_tier, row.path)
       IN /\ records' = Put(records, nextId, row)
          /\ origin' = Put(origin, nextId, IF held = None THEN 0 ELSE held[1])
          /\ nextId' = nextId + 1
          /\ Goto(t, AdoptLoop(CountAdopted(Called(loc[t], "create"), nextId),
                               loc[t].i + 1, now))
    /\ UNCHANGED <<config, now, objects, faults>>

\* physical_file = await self.adapter.create(storage_tier=orphan.tier,
\* filename=filename, path=orphan.key, hot_until=hot_until)
AdoptCreate(t) ==
    /\ pc[t] = "ad_create"
    /\ CanReturn(t)
    /\ LET row == [loc[t].row EXCEPT !.id = nextId]
           held == Stored(row.storage_tier, row.path)
       IN /\ records' = Put(records, nextId, row)
          /\ origin' = Put(origin, nextId, IF held = None THEN 0 ELSE held[1])
          /\ nextId' = nextId + 1
          /\ Goto(t, AdoptLoop(CountAdopted(Called(loc[t], "create"), nextId),
                               loc[t].i + 1, now))
    /\ UNCHANGED <<config, now, objects, faults>>

(***************************************************************************)
(* The callers, the other writers and the clock.                           *)
(***************************************************************************)
\* the coroutine hands its result (or its exception) to its caller
Return(t) ==
    /\ pc[t] = "done"
    /\ Goto(t, At("idle", [op |-> "none"]))
    /\ UNCHANGED <<config, now, objects, records, nextId, faults, origin>>

Tick ==
    /\ now < MaxTime
    /\ now' = now + 1
    /\ UNCHANGED <<config, objects, records, nextId, pc, loc, faults, origin>>

\* every coroutine is between calls
Quiet == \A t \in Tasks : pc[t] = "idle"

\* another program puts an object in one of the buckets, between the calls
\* of this one
ForeignPut ==
    /\ Quiet
    /\ \E tier \in StorageTier, key \in ForeignKeys :
        /\ ~HasObject(tier, key)
        /\ Cardinality({<<b, k>> \in Buckets \X ForeignKeys :
                           k \in DOMAIN objects[b]}) < MaxForeign
        /\ objects' = S3Put(objects, Bucket(config, tier), key, 0)
    /\ UNCHANGED <<config, now, records, nextId, pc, loc, faults, origin>>

AnyOption(S) == {None} \cup {Some(x) : x \in S}

\* upload options of any tier and visibility, no hot duration
CoreUploads ==
    [tiers |-> AnyOption(StorageTier), visibilities |-> AnyOption(FileVisibility),
     suffixes |-> Suffixes, durations |-> {}, max |-> MaxFiles]

\* the steps of every operation that moves or deletes one file
FileStep(t) ==
    \/ UploadPut(t) \/ UploadCreate(t)
    \/ DeleteStart(t) \/ DeleteObject(t) \/ DeleteRecord(t)
    \/ SetVisibilityStart(t, {TRUE}) \/ SetTierStart(t, {TRUE}, {})
    \/ MoveGet(t) \/ MovePut(t) \/ MoveDelete(t) \/ AdapterUpdate(t)
    \/ Return(t)

\* one caller; any backend call may raise
Next == UploadStart(1, CoreUploads) \/ FileStep(1) \/ Raise(1)

Spec == Init /\ [][Next]_vars

\* the suffix no earlier record was uploaded with: the k-th record's is
\* SuffixSeq[k]
FreshSuffix == {SuffixSeq[k] : k \in {nextId} \cap DOMAIN SuffixSeq}

\* uploads whose path suffixes are pairwise distinct
CleanUploads ==
    [tiers |-> AnyOption(StorageTier), visibilities |-> AnyOption(FileVisibility),
     suffixes |-> FreshSuffix, durations |-> {}, max |-> MaxCleanFiles]

InitClean == InitIn(Configs \cup {EqualConfig})

\* one caller, no backend call raises
NextClean == UploadStart(1, CleanUploads) \/ FileStep(1)

SpecClean == InitClean /\ [][NextClean]_vars

\* tiers and expiry times do not depend on the configuration: one is enough
InitHot == InitIn({SeparateConfig})

\* private uploads to HOT with a hot duration, distinct path suffixes
SweepUploads ==
    [tiers |-> {None, Some("HOT")}, visibilities |-> {None},
     suffixes |-> FreshSuffix, durations |-> HotDurations,
     max |-> MaxSweepFiles]

\* one caller uploads to HOT and runs the sweep of expired files as time
\* passes; any backend call may raise
NextSweep ==
    \/ UploadStart(1, SweepUploads) \/ UploadPut(1) \/ UploadCreate(1)
    \/ ArchiveStart(1) \/ ArchiveFind(1)
    \/ MoveGet(1) \/ MovePut(1) \/ MoveDelete(1) \/ AdapterUpdate(1)
    \/ GetUrl(1) \/ Return(1) \/ Raise(1) \/ Tick

SpecSweep == InitHot /\ [][NextSweep]_vars

\* uploads of one suffix, so that a second upload meets the first one's path
OrphanUploads ==
    [tiers |-> AnyOption(StorageTier), visibilities |-> {None},
     suffixes |-> {SuffixSeq[1]}, durations |-> {}, max |-> MaxFiles]

\* one caller uploads and lists the orphans of buckets that other programs
\* write to
NextOrphans ==
    \/ UploadStart(1, OrphanUploads) \/ UploadPut(1) \/ UploadCreate(1)
    \/ ListOrphansStart(1, {None, Some(DEFAULT_PRIVATE)})
    \/ ListHot(1) \/ ListCold(1) \/ ListFindAll(1)
    \/ ForeignPut \/ Return(1) \/ Raise(1)

SpecOrphans == Init /\ [][NextOrphans]_vars

\* one caller uploads and deletes the orphans of buckets that other programs
\* write to; any backend call may raise
NextReconcile ==
    \/ UploadStart(1, OrphanUploads) \/ UploadPut(1) \/ UploadCreate(1)
    \/ DeleteOrphansStart(1, {None, Some(DEFAULT_PRIVATE)},
                          AnyOption(StorageTier), BOOLEAN)
    \/ ListHot(1) \/ ListCold(1) \/ ListFindAll(1) \/ OrphanDelete(1)
    \/ ForeignPut \/ Return(1) \/ Raise(1)

SpecReconcile == Init /\ [][NextReconcile]_vars

\* adopt_orphan_objects with the defaults, and with a hot duration to set
AdoptHots == {<<FALSE, None>>, <<TRUE, Some(1)>>}

\* one caller uploads and adopts the orphans of buckets that other programs
\* write to; any backend call may raise
NextAdopt ==
    \/ UploadStart(1, OrphanUploads) \/ UploadPut(1) \/ UploadCreate(1)
    \/ AdoptOrphansStart(1, {None, Some(DEFAULT_PRIVATE)},
                         {None, Some("COLD")}, AdoptHots)
    \/ ListHot(1) \/ ListCold(1) \/ ListFindAll(1) \/ AdoptCreate(1)
    \/ ForeignPut \/ Return(1) \/ Raise(1)

SpecAdopt == Init /\ [][NextAdopt]_vars

\* public uploads to HOT, distinct path suffixes
PublicUploads ==
    [tiers |-> {None, Some("HOT")}, visibilities |-> {Some("PUBLIC")},
     suffixes |-> FreshSuffix, durations |-> {}, max |-> MaxUrlFiles]

\* shared mode without and with prefix overrides, and per-tier overrides
InitUrl == InitIn(Configs \cup {OverrideConfig, CustomTierConfig})

\* one caller uploads public files to HOT and asks for their URLs; any
\* backend call may raise
NextUrl ==
    \/ UploadStart(1, PublicUploads) \/ UploadPut(1) \/ UploadCreate(1)
    \/ GetUrl(1) \/ Return(1) \/ Raise(1)

SpecUrl == InitUrl /\ [][NextUrl]_vars

\* the configurations get_tier_config is given: every field that it reads,
\* set or not set
ConfigSpace ==
    {[EmptyConfig EXCEPT
         !.endpoint = endpoint, !.access_key = keys[1],
         !.secret_key = keys[2], !.hot_bucket = hot_bucket,
         !.cold_bucket = cold_bucket,
         !.port = port, !.use_ssl = use_ssl,
         !.public_hot_prefix = prefixes[1], !.private_hot_prefix = prefixes[2],
         !.public_cold_prefix = prefixes[3],
         !.private_cold_prefix = prefixes[4],
         !.hot = hot, !.cold = cold] :
        endpoint \in AnyOption({"s3", ""}),
        keys \in AnyOption({"key"}) \X AnyOption({"secret"}),
        hot_bucket \in AnyOption({"hot-bucket"}),
        cold_bucket \in AnyOption({"cold-bucket", ""}),
        port \in AnyOption({9000}), use_ssl \in AnyOption({FALSE}),
        prefixes \in AnyOption({CUSTOM_PUBLIC}) \X AnyOption({CUSTOM_PRIVATE})
                     \X AnyOption({CUSTOM_PUBLIC}) \X AnyOption({CUSTOM_PRIVATE}),
        hot \in AnyOption({S3TierConfig("hot.s3", "hot-bucket")}),
        cold \in AnyOption({S3TierConfig("cold.s3", "cold-bucket")})}

\* a configuration, and no file manager yet
InitConfig ==
    /\ config \in ConfigSpace
    /\ now = 0
    /\ objects = Empty
    /\ records = Empty
    /\ nextId = 1
    /\ pc = [t \in Tasks |-> "idle"]
    /\ loc = [t \in Tasks |-> [op |-> "none"]]
    /\ faults = 0
    /\ origin = Empty

\* get_tier_config(config, tier)
GetTierConfig(t) ==
    /\ pc[t] = "idle"
    /\ \E tier \in StorageTier :
        LET l == [Frame("get_tier_config") EXCEPT !.target = tier]
            r == get_tier_config(config, tier)
        IN IF r.ok THEN Goto(t, Returned(l, Some(r.cfg)))
           ELSE Goto(t, Propagated([l EXCEPT !.error = Some(r.error)],
                                   "get_tier_config"))
    /\ UNCHANGED <<config, now, objects, records, nextId, faults, origin>>

NextConfig == GetTierConfig(1) \/ Return(1)

SpecConfig == InitConfig /\ [][NextConfig]_vars

\* uploads of any tier and visibility, with or without a hot duration that
\* has run out
PrefixUploads ==
    [tiers |-> AnyOption(StorageTier), visibilities |-> AnyOption(FileVisibility),
     suffixes |-> FreshSuffix, durations |-> {-1}, max |-> MaxPrefixFiles]

\* the configurations whose prefixes are the defaults, and those that name
\* their own, for both tiers or for HOT alone
InitPrefix ==
    InitIn(Configs \cup {OverrideConfig, HotPrefixConfig, CustomTierConfig})

\* one caller uploads, changes visibilities and tiers and runs the sweep;
\* any backend call may raise
NextPrefix ==
    \/ UploadStart(1, PrefixUploads) \/ UploadPut(1) \/ UploadCreate(1)
    \/ SetVisibilityStart(1, BOOLEAN) \/ SetTierStart(1, BOOLEAN, {})
    \/ ArchiveStart(1) \/ ArchiveFind(1)
    \/ MoveGet(1) \/ MovePut(1) \/ MoveDelete(1) \/ AdapterUpdate(1)
    \/ GetUrl(1) \/ Return(1) \/ Raise(1)

SpecPrefix == InitPrefix /\ [][NextPrefix]_vars

\* uploads to the default tier with a path suffix of the caller's, the same
\* each time, or with none
PathUploads ==
    [tiers |-> {None}, visibilities |-> AnyOption(FileVisibility),
     suffixes |-> {<<>>, SuffixSeq[1]}, durations |-> {}, max |-> MaxPathFiles]

\* both tiers with the default prefixes, so that every visibility can change
InitPaths == InitIn({SeparateConfig})

\* one caller uploads, adopts the orphans its failed calls leave and changes
\* visibilities and tiers; any backend call may raise
NextPaths ==
    \/ UploadStart(1, PathUploads) \/ UploadPut(1) \/ UploadCreate(1)
    \/ AdoptOrphansStart(1, {None}, {None}, {<<FALSE, None>>})
    \/ ListHot(1) \/ ListCold(1) \/ ListFindAll(1) \/ AdoptCreate(1)
    \/ SetVisibilityStart(1, {TRUE}) \/ SetTierStart(1, {TRUE}, {})
    \/ MoveGet(1) \/ MovePut(1) \/ MoveDelete(1) \/ AdapterUpdate(1)
    \/ Return(1) \/ Raise(1)

SpecPaths == InitPaths /\ [][NextPaths]_vars

\* the hot durations a caller passes: in the past, zero, in the future
TierDurations == {-1, 0, 1}

\* private uploads to either tier, with or without a hot duration
HotUploads ==
    [tiers |-> AnyOption(StorageTier), visibilities |-> {None},
     suffixes |-> FreshSuffix, durations |-> {1}, max |-> MaxHotFiles]

\* one caller uploads and changes tiers and hot durations as time passes; any
\* backend call may raise
NextHot ==
    \/ UploadStart(1, HotUploads) \/ UploadPut(1) \/ UploadCreate(1)
    \/ SetTierStart(1, BOOLEAN, TierDurations)
    \/ SetHotDurationStart(1, TierDurations)
    \/ MoveGet(1) \/ MovePut(1) \/ MoveDelete(1) \/ AdapterUpdate(1)
    \/ Return(1) \/ Raise(1) \/ Tick

SpecHot == InitHot /\ [][NextHot]_vars

\* private uploads to HOT that have expired as they return
RaceUploads ==
    [tiers |-> {Some("HOT")}, visibilities |-> {None},
     suffixes |-> {SuffixSeq[1]}, durations |-> {-1}, max |-> MaxRaceFiles]

\* two callers side by side, their coroutines interleaved at every await.
\* The first uploads and then awaits one set_tier or one sweep; the second
\* awaits one reconciliation, one set_visibility or one sweep.  No call
\* fails but those that cannot return
NextRace ==
    \/ UploadStart(1, RaceUploads) \/ (loc[1].op = "upload" /\ Return(1))
    \/ SetTierStart(1, {TRUE}, {})
    \/ DeleteOrphansStart(2, {None}, {None}, {FALSE})
    \/ AdoptOrphansStart(2, {None}, {None}, {<<FALSE, None>>})
    \/ SetVisibilityStart(2, {TRUE})
    \/ \E t \in Tasks :
        \/ UploadPut(t) \/ UploadCreate(t)
        \/ ArchiveStart(t) \/ ArchiveFind(t)
        \/ MoveGet(t) \/ MovePut(t) \/ MoveDelete(t) \/ AdapterUpdate(t)
        \/ ListHot(t) \/ ListCold(t) \/ ListFindAll(t)
        \/ OrphanDelete(t) \/ AdoptCreate(t)
        \/ Refused(t)

SpecRace == InitHot /\ [][NextRace]_vars

\* one caller uploads files that are expired from the start and runs the
\* sweep again and again; a backend call may raise on a fault, or because
\* of what the store holds
NextRetry ==
    \/ UploadStart(1, RaceUploads) \/ UploadPut(1) \/ UploadCreate(1)
    \/ ArchiveStart(1) \/ ArchiveFind(1)
    \/ MoveGet(1) \/ MovePut(1) \/ MoveDelete(1) \/ AdapterUpdate(1)
    \/ Return(1) \/ Raise(1) \/ Refused(1) \/ Tick

\* every await of the caller completes, and the sweep is started again
\* whenever the caller comes back to idle; the faults are finitely many
FairRetry ==
    /\ InitHot /\ [][NextRetry]_vars
    /\ WF_vars(UploadPut(1) \/ UploadCreate(1) \/ ArchiveFind(1)
               \/ MoveGet(1) \/ MovePut(1) \/ MoveDelete(1)
               \/ AdapterUpdate(1) \/ Refused(1) \/ Return(1))
    /\ SF_vars(ArchiveStart(1))

(***************************************************************************)
(* ObjectStoreService, called directly.                                    *)
(***************************************************************************)
\* botocore.exceptions.ClientError: an error response of the backend, with
\* its code
ClientError(code) == [class |-> "ClientError", code |-> code]

\* raise FileNotFoundError(f"File not found: {path}") from e
FileNotFoundError(e) ==
    [class |-> "FileNotFoundError", code |-> "", cause |-> e]

\* the method ends with the exception e
Escaped(l, step, e) ==
    At("done", [l EXCEPT !.status = "raised", !.at = step, !.error = Some(e)])

\* the handlers without the except clause of exists
StoreThrownPastExists(l, step, e) ==
    IF step = "get_object" /\ e = ClientError("NoSuchKey")
    THEN Escaped(l, step, FileNotFoundError(e))
    ELSE Escaped(l, step, e)

\* the handlers with a download that reports every error response as a
\* missing file
StoreThrownAsNotFound(l, step, e) ==
    IF step = "head_object" /\ e.class = "ClientError"
    THEN Returned([l EXCEPT !.error = Some(e)], Some(FALSE))
    ELSE IF step = "get_object" /\ e.class = "ClientError"
    THEN Escaped(l, step, FileNotFoundError(e))
    ELSE Escaped(l, step, e)

\* the exception e raised by the client call `step`, through the except
\* clauses of exists and of download.  The exception that exists swallows
\* stays in the frame for the properties to read
StoreThrown(l, step, e) ==
    IF step = "head_object" /\ e.class = "ClientError"
    THEN Returned([l EXCEPT !.error = Some(e)], Some(FALSE))
    ELSE IF step = "get_object" /\ e = ClientError("NoSuchKey")
    THEN Escaped(l, step, FileNotFoundError(e))
    ELSE Escaped(l, step, e)

\* client.list_objects_v2(Bucket=..., Prefix=..., ContinuationToken=...) on
\* a bucket with these keys: at most MaxKeys keys in the order of their
\* bytes, from the first or from past the one the token names.  A prefix or
\* a token left out of the parameters is the empty one
list_objects_v2(keys, prefix, continuation_token) ==
    LET rest == InKeyOrder({k \in keys :
                    /\ StartsWith(k, prefix)
                    /\ continuation_token # None =>
                            StrLess(continuation_token[1], k)})
        Contents == SubSeq(rest, 1, IF Len(rest) < MaxKeys THEN Len(rest)
                                    ELSE MaxKeys)
    IN [Contents |-> Contents,
        IsTruncated |-> Len(rest) > MaxKeys,
        NextContinuationToken |->
            IF Len(rest) > MaxKeys THEN Some(Contents[Len(Contents)])
            ELSE None]

\* a caller awaits one of the methods `ops`.  The locals a method does not have
\* keep their initial values
StoreStart(t, ops) ==
    /\ pc[t] = "idle"
    /\ \E op \in ops,
          tier \in StorageTier, path \in {<<"a">>, <<"a", "b">>, <<"c">>},
          dest_tier \in StorageTier,
          dest_path \in {<<"a">>, <<"a", "b">>, <<"c">>},
          data \in {1}, prefix \in {None, Some(<<>>), Some(<<"a">>)} :
        LET l0 == [Frame(op) EXCEPT !.before = Snapshot, !.objects = <<>>,
                                    !.continuation_token = None]
            l == CASE op = "upload" ->
                        [l0 EXCEPT !.dst = <<tier, path>>, !.data = data]
                   [] op \in {"copy", "move"} ->
                        [l0 EXCEPT !.src = <<tier, path>>,
                                   !.dst = <<dest_tier, dest_path>>]
                   [] op = "list_objects" ->
                        [l0 EXCEPT !.src = <<tier, <<>>>>, !.prefix = prefix]
                   [] OTHER -> [l0 EXCEPT !.src = <<tier, path>>]
            entry == CASE op = "upload" -> "os_put"
                       [] op = "delete" -> "os_del"
                       [] op = "exists" -> "os_head"
                       [] op = "list_objects" -> "os_list"
                       [] OTHER -> "os_get"
        IN Goto(t, At(entry, l))
    /\ UNCHANGED <<config, now, objects, records, nextId, faults, origin>>

\* client.put_object(Bucket=config.bucket, Key=path, Body=data)
OsPut(t) ==
    /\ pc[t] = "os_put"
    /\ objects' = S3Put(objects, Bucket(config, loc[t].dst[1]), loc[t].dst[2],
                        loc[t].data)
    /\ LET l == Called(loc[t], "put_object")
       IN Goto(t, IF l.op = "move" THEN At("os_del", l) ELSE Returned(l, None))
    /\ UNCHANGED <<config, now, records, nextId, faults, origin>>

\* response = client.get_object(Bucket=config.bucket, Key=path);
\* response["Body"].read()
OsGet(t) ==
    /\ pc[t] = "os_get"
    /\ LET l == Called(loc[t], "get_object")
       IN IF HasObject(l.src[1], l.src[2])
          THEN LET data == ObjectAt(l.src[1], l.src[2])
               IN Goto(t, IF l.op = "download" THEN Returned(l, Some(data))
                          ELSE At("os_put", [l EXCEPT !.data = data]))
          ELSE Goto(t, StoreThrown(l, "get_object", ClientError("NoSuchKey")))
    /\ UNCHANGED <<config, now, objects, records, nextId, faults, origin>>

\* a delete that raises for a key the bucket does not hold
OsDeleteOfPresent(t) ==
    /\ pc[t] = "os_del"
    /\ LET l == Called(loc[t], "delete_object")
       IN IF HasObject(l.src[1], l.src[2])
          THEN /\ objects' = S3Delete(objects, Bucket(config, l.src[1]),
                                      l.src[2])
               /\ Goto(t, Returned(l, None))
          ELSE /\ objects' = objects
               /\ Goto(t, Escaped(l, "delete_object", ClientError("NoSuchKey")))
    /\ UNCHANGED <<config, now, records, nextId, faults, origin>>

\* client.delete_object(Bucket=config.bucket, Key=path)
OsDelete(t) ==
    /\ pc[t] = "os_del"
    /\ objects' = S3Delete(objects, Bucket(config, loc[t].src[1]),
                           loc[t].src[2])
    /\ Goto(t, Returned(Called(loc[t], "delete_object"), None))
    /\ UNCHANGED <<config, now, records, nextId, faults, origin>>

\* client.head_object(Bucket=config.bucket, Key=path): the backend answers
\* 404 for a key the bucket does not hold
OsHead(t) ==
    /\ pc[t] = "os_head"
    /\ LET l == Called(loc[t], "head_object")
       IN Goto(t, IF HasObject(l.src[1], l.src[2])
                  THEN Returned(l, Some(TRUE))
                  ELSE StoreThrown(l, "head_object", ClientError("404")))
    /\ UNCHANGED <<config, now, objects, records, nextId, faults, origin>>

\* a list_objects that returns after its first page
OsListFirstPage(t) ==
    /\ pc[t] = "os_list"
    /\ LET response ==
               list_objects_v2(DOMAIN objects[Bucket(config, loc[t].src[1])],
                               IF loc[t].prefix # None /\ loc[t].prefix[1] # <<>>
                               THEN loc[t].prefix[1] ELSE <<>>,
                               loc[t].continuation_token)
           l == [Called(loc[t], "list_objects_v2") EXCEPT
                    !.objects = @ \o response.Contents]
       IN Goto(t, Returned(l, Some(l.objects)))
    /\ UNCHANGED <<config, now, objects, records, nextId, faults, origin>>

\* one turn of the while loop of list_objects
OsList(t) ==
    /\ pc[t] = "os_list"
    /\ LET response ==
               list_objects_v2(DOMAIN objects[Bucket(config, loc[t].src[1])],
                               IF loc[t].prefix # None /\ loc[t].prefix[1] # <<>>
                               THEN loc[t].prefix[1] ELSE <<>>,
                               loc[t].continuation_token)
           l == [Called(loc[t], "list_objects_v2") EXCEPT
                    !.objects = @ \o response.Contents]
       IN IF ~response.IsTruncated THEN Goto(t, Returned(l, Some(l.objects)))
          ELSE Goto(t, At("os_list",
                   [l EXCEPT !.continuation_token =
                                 response.NextContinuationToken]))
    /\ UNCHANGED <<config, now, objects, records, nextId, faults, origin>>

\* the client call the coroutine is at raises, whatever the bucket holds: an
\* error response of the backend, or an exception of the client that is no
\* response
OsFault(t) ==
    /\ pc[t] \in {"os_put", "os_get", "os_del", "os_head", "os_list"}
    /\ faults < MaxFaults
    /\ faults' = faults + 1
    /\ \E e \in {ClientError("AccessDenied"), ClientError("InternalError"),
                [class |-> "EndpointConnectionError", code |-> ""]} :
        LET step == CASE pc[t] = "os_put" -> "put_object"
                      [] pc[t] = "os_get" -> "get_object"
                      [] pc[t] = "os_del" -> "delete_object"
                      [] pc[t] = "os_head" -> "head_object"
                      [] OTHER -> "list_objects_v2"
        IN Goto(t, StoreThrown(Called(loc[t], step), step, e))
    /\ UNCHANGED <<config, now, objects, records, nextId, origin>>

\* one caller awaits the methods of the object store, one after the other
NextStore ==
    \/ StoreStart(1, {"upload", "download", "delete", "copy", "move", "exists",
                      "list_objects"})
    \/ OsPut(1) \/ OsGet(1) \/ OsDelete(1) \/ OsHead(1)
    \/ OsList(1) \/ OsFault(1) \/ Return(1)

SpecStore == InitHot /\ [][NextStore]_vars

\* one caller fills the buckets and lists them
NextListing ==
    \/ StoreStart(1, {"upload", "list_objects"})
    \/ OsPut(1) \/ OsList(1) \/ OsFault(1) \/ Return(1)

\* the caller's event loop runs the coroutine it awaits
FairListing == InitHot /\ [][NextListing]_vars /\ WF_vars(OsList(1))

\* _create_client: the parts of the endpoint_url the client of a tier is
\* given
endpoint_url(tier_config) ==
    LET protocol == IF tier_config.use_ssl THEN "https" ELSE "http"
        port == tier_config.port
        is_standard_port == (protocol = "http" /\ port = 80)
                            \/ (protocol = "https" /\ port = 443)
    IN [protocol |-> protocol,
        endpoint |-> tier_config.endpoint,
        port_suffix |-> IF is_standard_port THEN None ELSE Some(port)]

\* per-tier configurations with every use_ssl and the ports 80, 443 and
\* another one
PortConfigs ==
    {[EmptyConfig EXCEPT
         !.hot = Some([S3TierConfig("hot.s3", "hot-bucket") EXCEPT
                          !.use_ssl = ssl[1], !.port = ports[1]]),
         !.cold = Some([S3TierConfig("cold.s3", "cold-bucket") EXCEPT
                           !.use_ssl = ssl[2], !.port = ports[2]])] :
        ssl \in BOOLEAN \X BOOLEAN,
        ports \in {80, 443, 9000} \X {80, 443, 9000}}

\* self.objectstore.get_public_url(tier, path)
GetPublicUrl(t) ==
    /\ pc[t] = "idle"
    /\ \E tier \in StorageTier, path \in {<<"a">>, <<"a", "/", "b">>} :
        Goto(t, Returned([Frame("get_public_url") EXCEPT
                             !.src = <<tier, path>>],
                         Some(get_public_url(config, tier, path))))
    /\ UNCHANGED <<config, now, objects, records, nextId, faults, origin>>

\* one caller asks the object store for public URLs
NextEndpoint == GetPublicUrl(1) \/ Return(1)

SpecEndpoint == InitIn(PortConfigs) /\ [][NextEndpoint]_vars

(***************************************************************************)
(* Properties.  A coroutine at "done" holds the outcome of the call: how   *)
(* it ended, the backend call that raised, and the backend calls issued.   *)
(***************************************************************************)
Done(t, op) == pc[t] = "done" /\ loc[t].op = op

RaisedAt(t, step) == loc[t].status = "raised" /\ loc[t].at = step

\* set_visibility or set_tier with move_file=true has ended
MovedDone(t) ==
    /\ pc[t] = "done"
    /\ loc[t].op \in {"set_visibility", "set_tier"}
    /\ loc[t].move_file

\* the stored record is the one the call was given
RecordUnchanged(t) ==
    /\ loc[t].file.id \in DOMAIN records
    /\ records[loc[t].file.id] = loc[t].file

\* some record names (tier, path)
Tracked(tier, path) ==
    \E i \in DOMAIN records :
        records[i].storage_tier = tier /\ records[i].path = path

\* list_orphan_objects() would report the object at (tier, path)
Reported(tier, path) ==
    OrphanObject(path, tier) \in list_orphan_objects(objects, records, None)

\* C1: upload puts the object before it creates the record; when the put
\* raises, create is not called; when create raises after the put, the
\* object is in the tier's bucket, no record names it, and
\* list_orphan_objects reports it.
C1_UploadOrphanReported ==
    \A t \in Tasks :
        Done(t, "upload") =>
            /\ RaisedAt(t, "put_object") => loc[t].calls = <<"put_object">>
            /\ loc[t].status = "ok" => loc[t].calls = <<"put_object", "create">>
            /\ RaisedAt(t, "create") =>
                /\ loc[t].calls = <<"put_object", "create">>
                /\ HasObject(loc[t].dst[1], loc[t].dst[2])
                /\ ~Tracked(loc[t].dst[1], loc[t].dst[2])
                /\ Reported(loc[t].dst[1], loc[t].dst[2])

\* the order of upload's two calls, and that a failed put stops it
C1_UploadOrder ==
    \A t \in Tasks :
        Done(t, "upload") =>
            /\ RaisedAt(t, "put_object") => loc[t].calls = <<"put_object">>
            /\ loc[t].status = "ok" => loc[t].calls = <<"put_object", "create">>
            /\ RaisedAt(t, "create") =>
                /\ loc[t].calls = <<"put_object", "create">>
                /\ HasObject(loc[t].dst[1], loc[t].dst[2])

\* C2, as the specification states it: whichever step of a moving
\* set_visibility or set_tier raises (copy, delete of the source,
\* adapter.update), the record is unchanged and the object is still at the
\* record's (tier, path).
C2_AnyStepKeepsOldObject ==
    \A t \in Tasks :
        (/\ MovedDone(t)
         /\ loc[t].status = "raised"
         /\ loc[t].at \in {"get_object", "put_object", "delete_object",
                           "update"})
        => /\ RecordUnchanged(t)
           /\ HasObject(loc[t].file.storage_tier, loc[t].file.path)

\* C2, amended: when the copy or the delete of the source raises, the
\* record is unchanged and the old (tier, path) holds what it held before the
\* call; when adapter.update raises, the record is unchanged but the object
\* is at the destination and no longer at the old (tier, path).
C2_MoveFailureKeepsOldObject ==
    \A t \in Tasks :
        (MovedDone(t) /\ loc[t].status = "raised") =>
            /\ loc[t].at \in {"get_object", "put_object", "delete_object"} =>
                /\ RecordUnchanged(t)
                /\ Stored(loc[t].file.storage_tier, loc[t].file.path)
                       = loc[t].had
            /\ loc[t].at = "update" =>
                /\ RecordUnchanged(t)
                /\ ~HasObject(loc[t].src[1], loc[t].src[2])
                /\ Stored(loc[t].dst[1], loc[t].dst[2]) = loc[t].had
                /\ loc[t].had # None

\* the delete of the source raised after the copy, and the object is still
\* at the record's (tier, path)
C2_Witness ==
    \E t \in Tasks :
        /\ MovedDone(t)
        /\ RaisedAt(t, "delete_object")
        /\ RecordUnchanged(t)
        /\ HasObject(loc[t].file.storage_tier, loc[t].file.path)

\* C3: when delete's object delete raises, adapter.delete is not called and
\* the record is still present, unchanged.
C3_DeleteStopsAtObjectFailure ==
    \A t \in Tasks :
        (Done(t, "delete") /\ RaisedAt(t, "delete_object")) =>
            /\ loc[t].calls = <<"delete_object">>
            /\ RecordUnchanged(t)

C3_Witness ==
    \E t \in Tasks :
        /\ Done(t, "delete")
        /\ RaisedAt(t, "delete_object")
        /\ RecordUnchanged(t)

\* C4, as the specification states it: when the object delete succeeds and
\* adapter.delete raises, the result is an orphan (an object without a
\* record), not a record whose object is gone.
C4_RecordFailureLeavesOrphan ==
    \A t \in Tasks :
        (Done(t, "delete") /\ RaisedAt(t, "delete")) =>
            /\ HasObject(loc[t].file.storage_tier, loc[t].file.path)
            /\ ~Tracked(loc[t].file.storage_tier, loc[t].file.path)

\* C4, amended: when the object delete succeeds and adapter.delete raises,
\* the record stays, unchanged, its (tier, path) holds no object, and
\* list_orphan_objects reports nothing under the record's path.
C4_RecordFailureLeavesDanglingRecord ==
    \A t \in Tasks :
        (Done(t, "delete") /\ RaisedAt(t, "delete")) =>
            /\ loc[t].calls = <<"delete_object", "delete">>
            /\ RecordUnchanged(t)
            /\ ~HasObject(loc[t].file.storage_tier, loc[t].file.path)
            /\ \A o \in list_orphan_objects(objects, records, None) :
                   o.key # loc[t].file.path

\* adapter.delete raised after the object was deleted
C4_Witness ==
    \E t \in Tasks :
        /\ Done(t, "delete")
        /\ RaisedAt(t, "delete")
        /\ loc[t].had # None
        /\ ~HasObject(loc[t].file.storage_tier, loc[t].file.path)

\* C5: a moving set_visibility or set_tier issues adapter.update only after
\* the move has fully succeeded (the object copied to the destination, the
\* source deleted); when the move raises, adapter.update is not called and
\* the record is unchanged.
C5_UpdateAfterMove ==
    \A t \in Tasks :
        (loc[t].op \in {"set_visibility", "set_tier", "archive"}
         /\ pc[t] \in {"mv_get", "mv_put", "mv_del", "update", "done"}
         /\ loc[t].move_file) =>
            /\ pc[t] = "update" =>
                /\ loc[t].calls = <<"get_object", "put_object", "delete_object">>
                /\ Stored(loc[t].dst[1], loc[t].dst[2]) = Some(loc[t].data)
                /\ loc[t].had = Some(loc[t].data)
                /\ loc[t].src # loc[t].dst =>
                       ~HasObject(loc[t].src[1], loc[t].src[2])
            /\ (\E k \in DOMAIN loc[t].calls : loc[t].calls[k] = "update") =>
                   loc[t].calls = <<"get_object", "put_object",
                                    "delete_object", "update">>
            /\ (pc[t] = "done" /\ loc[t].status = "raised"
                /\ loc[t].at \in {"get_object", "put_object", "delete_object"})
               => /\ \A k \in DOMAIN loc[t].calls : loc[t].calls[k] # "update"
                  /\ RecordUnchanged(t)

\* adapter.update is about to be issued after a move
C5_Witness ==
    \E t \in Tasks :
        /\ loc[t].op \in {"set_visibility", "set_tier"}
        /\ pc[t] = "update"
        /\ loc[t].move_file
        /\ loc[t].calls = <<"get_object", "put_object", "delete_object">>

\* C7: when a move has copied the object and stops before deleting the
\* source, the copy the record does not point at is reported by
\* list_orphan_objects.
C7_SurplusCopyReported ==
    \A t \in Tasks :
        (MovedDone(t) /\ RaisedAt(t, "delete_object")) =>
            Reported(loc[t].dst[1], loc[t].dst[2])

\* the same for set_visibility alone, when no record has the new path
C7_SurplusCopyReportedSameTier ==
    \A t \in Tasks :
        (/\ MovedDone(t)
         /\ RaisedAt(t, "delete_object")
         /\ loc[t].op = "set_visibility"
         /\ ~PathTaken(records, 0, loc[t].dst[2]))
        => Reported(loc[t].dst[1], loc[t].dst[2])

\* C6: after any sequence of uploads with distinct suffixes, moving
\* set_visibility and set_tier calls and deletes in which nothing fails, every
\* record's (tier, path) holds the bytes uploaded for that record, every
\* object has a record and list_orphan_objects returns nothing.
C6_OneToOne ==
    Quiet =>
        /\ \A i \in DOMAIN records :
               Stored(records[i].storage_tier, records[i].path)
                   = Some(origin[i])
        /\ \A tier \in StorageTier :
               \A k \in DOMAIN objects[Bucket(config, tier)] : Tracked(tier, k)
        /\ list_orphan_objects(objects, records, None) = {}

\* the same when the public and private prefixes of each tier differ
C6_OneToOneDistinctPrefixes ==
    config \in Configs => C6_OneToOne

\* what list_orphan_objects is to return for the buckets and records as they
\* are: per tier, the keys under the prefix that are no record's path
OrphanSet(prefix) ==
    {[key |-> k, tier |-> tier, bucket |-> TierCfg(config, tier).bucket] :
        <<k, tier>> \in
            {kt \in (UNION {DOMAIN objects[b] : b \in Buckets}) \X StorageTier :
                /\ kt[1] \in DOMAIN objects[Bucket(config, kt[2])]
                /\ prefix # None => StartsWith(kt[1], prefix[1])
                /\ \A i \in DOMAIN records : records[i].path # kt[1]}}

\* C8: list_orphan_objects returns, for each tier, exactly the objects of the
\* tier's bucket whose key is no record's path, whatever the record's tier,
\* each tagged with the tier and the bucket it was listed from.
C8_OrphansAreUntrackedKeys ==
    \A t \in Tasks :
        (Done(t, "list_orphan_objects") /\ loc[t].status = "ok") =>
            loc[t].ret = Some(OrphanSet(loc[t].prefix))

\* HOT holds three objects, one of them a record's: the other two are
\* returned, tagged HOT
C8_Witness ==
    \E t \in Tasks :
        /\ Done(t, "list_orphan_objects")
        /\ loc[t].status = "ok"
        /\ loc[t].prefix = None
        /\ Cardinality(DOMAIN objects[Bucket(config, "HOT")]) = 3
        /\ objects[Bucket(config, "COLD")] = Empty
        /\ Cardinality(DOMAIN records) = 1
        /\ \A i \in DOMAIN records :
               /\ HasObject("HOT", records[i].path)
               /\ loc[t].ret =
                      Some({OrphanObject(k, "HOT") :
                               k \in DOMAIN objects[Bucket(config, "HOT")]
                                        \ {records[i].path}})
        /\ Cardinality(loc[t].ret[1]) = 2

\* the ids of the records find_expired_hot_files returned to the sweep
ExpiredIds(t) == {loc[t].expired[k].id : k \in DOMAIN loc[t].expired}

\* C9: archive_expired_hot_files does not raise when a record's transition
\* fails: every record find_expired_hot_files returned is attempted, the
\* result is the number of records whose set_tier to COLD succeeded, and
\* every record whose transition failed is still HOT.
C9_SweepCountsSuccesses ==
    \A t \in Tasks :
        (Done(t, "archive") /\ ~RaisedAt(t, "find_expired_hot_files")) =>
            /\ loc[t].status = "ok"
            /\ loc[t].failed \subseteq ExpiredIds(t)
            /\ loc[t].ret =
                   Some(Cardinality(ExpiredIds(t) \ loc[t].failed))
            /\ \A i \in ExpiredIds(t) :
                   records[i].storage_tier =
                       IF i \in loc[t].failed THEN "HOT" ELSE "COLD"

\* three expired records, one transition failed, the sweep returned 2
C9_Witness ==
    \E t \in Tasks :
        /\ Done(t, "archive")
        /\ loc[t].status = "ok"
        /\ Len(loc[t].expired) = 3
        /\ Cardinality(loc[t].failed) = 1
        /\ loc[t].ret = Some(2)
        /\ \A i \in loc[t].failed : records[i].storage_tier = "HOT"

\* C10: a file uploaded HOT and PRIVATE with a negative hot duration is
\* moved by the next sweep: its record is COLD with hot_until cleared, its
\* object is in the COLD bucket and not in the HOT bucket, and get_url on the
\* record returns a presigned URL for the COLD bucket.
C10_ExpiredFileArchived ==
    \A t \in Tasks :
        (Done(t, "archive") /\ loc[t].status = "ok" /\ loc[t].failed = {}) =>
            \A i \in ExpiredIds(t) :
                /\ records[i].storage_tier = "COLD"
                /\ records[i].hot_until = None
                /\ HasObject("COLD", records[i].path)
                /\ ~HasObject("HOT", records[i].path)
                /\ get_url(config, records[i], None).kind = "presigned"
                /\ get_url(config, records[i], None).bucket
                       = TierCfg(config, "COLD").bucket

\* what does hold of the sweep of such a file: record COLD, object in the
\* COLD bucket only
C10_ExpiredFileMoved ==
    \A t \in Tasks :
        (Done(t, "archive") /\ loc[t].status = "ok" /\ loc[t].failed = {}) =>
            \A i \in ExpiredIds(t) :
                /\ records[i].storage_tier = "COLD"
                /\ Stored("COLD", records[i].path) = Some(origin[i])
                /\ ~HasObject("HOT", records[i].path)


\* set_tier has returned for a record that was in tier `from`, asked for
\* tier `to`
TierChanged(t, from, to) ==
    /\ Done(t, "set_tier")
    /\ loc[t].status = "ok"
    /\ loc[t].file.storage_tier = from
    /\ loc[t].target = to

\* C11: set_tier to COLD on a HOT record whose hot_until is set yields
\* hot_until unset in the returned record and in the record the store holds.
C11_ColdClearsHotUntil ==
    \A t \in Tasks :
        (TierChanged(t, "HOT", "COLD") /\ loc[t].file.hot_until # None) =>
            /\ loc[t].ret[1].hot_until = None
            /\ records[loc[t].file.id].hot_until = None

\* what does hold of it: the record is COLD, the returned record is the
\* stored one, and hot_until is what it was
C11_ColdKeepsHotUntil ==
    \A t \in Tasks :
        TierChanged(t, "HOT", "COLD") =>
            /\ loc[t].ret = Some(records[loc[t].file.id])
            /\ records[loc[t].file.id]
                   = [loc[t].file EXCEPT !.storage_tier = "COLD"]

\* C12: set_tier from COLD to HOT sets hot_until to now + hot_duration when a
\* duration is given (zero and negative ones included) and leaves the record
\* with hot_until unset when none is given.
C12_HotSetsHotUntil ==
    \A t \in Tasks :
        TierChanged(t, "COLD", "HOT") =>
            LET row == records[loc[t].file.id]
            IN /\ loc[t].ret = Some(row)
               /\ row.storage_tier = "HOT"
               /\ loc[t].duration # None =>
                      row.hot_until
                          = Some(loc[t].called_at + loc[t].duration[1])
               /\ loc[t].duration = None => row.hot_until = None

\* the same for a COLD record that has no hot_until
C12_HotSetsHotUntilOfFreshCold ==
    \A t \in Tasks :
        (TierChanged(t, "COLD", "HOT") /\ loc[t].file.hot_until = None) =>
            LET row == records[loc[t].file.id]
            IN /\ loc[t].ret = Some(row)
               /\ row.storage_tier = "HOT"
               /\ loc[t].duration # None =>
                      row.hot_until
                          = Some(loc[t].called_at + loc[t].duration[1])
               /\ loc[t].duration = None => row.hot_until = None

\* the call asks for what the record already has: set_visibility for the
\* visibility of the record's path, set_tier for the record's tier
NoChangeAsked(t) ==
    \/ /\ Done(t, "set_visibility")
       /\ get_visibility_from_path(loc[t].file.path) = loc[t].target
    \/ /\ Done(t, "set_tier")
       /\ loc[t].file.storage_tier = loc[t].target

C14_HotDurationOnlyOnHot ==
    \A t \in Tasks :
        Done(t, "set_hot_duration") =>
            /\ loc[t].file.storage_tier # "HOT" =>
                /\ RaisedAt(t, "tier")
                /\ loc[t].calls = <<>>
                /\ RecordUnchanged(t)
            /\ loc[t].file.storage_tier = "HOT" =>
                /\ loc[t].calls = <<"update">>
                /\ loc[t].status = "raised" => RecordUnchanged(t)
                /\ loc[t].status = "ok" =>
                    /\ loc[t].ret = Some(records[loc[t].file.id])
                    /\ records[loc[t].file.id] =
                           [loc[t].file EXCEPT
                               !.hot_until = records[loc[t].file.id].hot_until]

\* set_hot_duration was refused for a COLD record whose object is in place
C14_Witness ==
    \E t \in Tasks :
        /\ Done(t, "set_hot_duration")
        /\ loc[t].file.storage_tier = "COLD"
        /\ RaisedAt(t, "tier")
        /\ HasObject("COLD", loc[t].file.path)
        /\ RecordUnchanged(t)

\* C15: set_hot_duration with duration 0 sets hot_until to the time of the
\* call, so that find_expired_hot_files returns the record; with no duration
\* it clears hot_until in the store, so that find_expired_hot_files does not
\* return the record again.
C15_ZeroExpiresNoneClears ==
    \A t \in Tasks :
        (Done(t, "set_hot_duration") /\ loc[t].status = "ok") =>
            LET id == loc[t].file.id
            IN /\ loc[t].duration = Some(0) =>
                    /\ records[id].hot_until = Some(loc[t].called_at)
                    /\ id \in Expired(records, now)
               /\ loc[t].duration = None =>
                    /\ records[id].hot_until = None
                    /\ id \notin Expired(records, now)

\* the half about duration 0
C15_ZeroExpires ==
    \A t \in Tasks :
        (/\ Done(t, "set_hot_duration")
         /\ loc[t].status = "ok"
         /\ loc[t].duration = Some(0))
        => /\ records[loc[t].file.id].hot_until = Some(loc[t].called_at)
           /\ loc[t].file.id \in Expired(records, now)


\* the orphans a delete_orphan_objects or adopt_orphan_objects call with the
\* options of t selects from the buckets objs and the records recs
Selected(t, objs, recs) ==
    Filtered(OrphanList(list_orphan_objects(objs, recs, loc[t].prefix)),
             loc[t].tier)

Keys(orphans) == [k \in DOMAIN orphans |-> orphans[k].key]

\* the calls of a listing that went through
Listing == <<"list_objects_v2", "list_objects_v2", "find_all">>

ListingRaised(t) ==
    /\ loc[t].status = "raised"
    /\ loc[t].at \in {"list_objects_v2", "find_all"}

\* C16: delete_orphan_objects with dry_run=true deletes nothing: the objects
\* and the records are what they were before the call, list_orphan_objects
\* returns the same orphans, and the result has dry_run=true, deleted_paths
\* equal to the keys of all selected orphans and failed = 0.
C16_DryRunDeletesNothing ==
    \A t \in Tasks :
        (Done(t, "delete_orphan_objects") /\ loc[t].dry_run) =>
            LET before == loc[t].before[1]
                selected == Selected(t, before.objects, before.records)
            IN /\ objects = before.objects
               /\ records = before.records
               /\ list_orphan_objects(objects, records, None)
                      = list_orphan_objects(before.objects, before.records,
                                            None)
               /\ loc[t].status = "raised" => ListingRaised(t)
               /\ loc[t].status = "ok" =>
                    /\ loc[t].calls = Listing
                    /\ loc[t].ret = Some(
                           [deleted |-> Len(selected), failed |-> 0,
                            deleted_paths |-> Keys(selected),
                            errors |-> <<>>, dry_run |-> TRUE])

\* a dry run over two orphans has returned, and both objects are in place
C16_Witness ==
    \E t \in Tasks :
        /\ Done(t, "delete_orphan_objects")
        /\ loc[t].dry_run
        /\ loc[t].status = "ok"
        /\ loc[t].ret[1].dry_run
        /\ Len(loc[t].ret[1].deleted_paths) = 2
        /\ \A k \in DOMAIN loc[t].orphans :
               HasObject(loc[t].orphans[k].tier, loc[t].orphans[k].key)

\* how many of the selected orphans of key `key` are (present = TRUE) or are
\* not (present = FALSE) in their bucket
HowMany(selected, key, present) ==
    Cardinality({k \in DOMAIN selected :
                    /\ selected[k].key = key
                    /\ HasObject(selected[k].tier, key) = present})

Count(seq, x) == Cardinality({k \in DOMAIN seq : seq[k] = x})

\* C17: delete_orphan_objects, not a dry run, attempts every selected orphan
\* and raises for no failing delete: deleted + failed is the number of
\* selected orphans, deleted_paths lists the keys whose delete succeeded,
\* errors has one entry per key whose delete failed, the objects whose delete
\* failed are still present, and nothing else has changed.
C17_DeleteContinuesPastFailures ==
    \A t \in Tasks :
        (Done(t, "delete_orphan_objects") /\ ~loc[t].dry_run) =>
            LET before == loc[t].before[1]
                selected == Selected(t, before.objects, before.records)
                result == loc[t].ret[1]
            IN /\ records = before.records
               /\ loc[t].status = "raised" =>
                      ListingRaised(t) /\ objects = before.objects
               /\ loc[t].status = "ok" =>
                    /\ result.deleted + result.failed = Len(selected)
                    /\ result.deleted = Len(result.deleted_paths)
                    /\ result.failed = Len(result.errors)
                    /\ ~result.dry_run
                    /\ Len(loc[t].calls) = Len(Listing) + Len(selected)
                    /\ \A k \in DOMAIN selected :
                        LET key == selected[k].key
                        IN /\ Count(result.deleted_paths, key)
                                  = HowMany(selected, key, FALSE)
                           /\ Count(result.errors, [path |-> key])
                                  = HowMany(selected, key, TRUE)
                    /\ \A tier \in StorageTier :
                        \A key \in DOMAIN before.objects[Bucket(config, tier)] :
                            (\A k \in DOMAIN selected :
                                selected[k] # OrphanObject(key, tier))
                            => Stored(tier, key)
                                   = Some(before.objects[Bucket(config, tier)][key])

\* of two selected orphans one delete failed and the other succeeded: the
\* first object is in place, the second is gone
C17_Witness ==
    \E t \in Tasks :
        /\ Done(t, "delete_orphan_objects")
        /\ ~loc[t].dry_run
        /\ loc[t].status = "ok"
        /\ Len(loc[t].orphans) = 2
        /\ loc[t].ret[1].deleted = 1
        /\ loc[t].ret[1].failed = 1
        /\ HasObject(loc[t].orphans[1].tier, loc[t].orphans[1].key)
        /\ ~HasObject(loc[t].orphans[2].tier, loc[t].orphans[2].key)

\* the ids an adopt_orphan_objects call reports
AdoptedIds(t) ==
    {loc[t].ret[1].adopted_file_ids[k] :
        k \in DOMAIN loc[t].ret[1].adopted_file_ids}

\* adopt_orphan_objects touches no object and raises for no failing create;
\* it creates one record per reported id, each with the key and the tier of
\* a selected orphan; every selected orphan has its record or its error;
\* adopted + failed is the number selected; no adopted object is an orphan
\* any more
AdoptedAsListed(t) ==
    LET before == loc[t].before[1]
        selected == Selected(t, before.objects, before.records)
        result == loc[t].ret[1]
    IN /\ objects = before.objects
       /\ \A i \in DOMAIN before.records : /\ i \in DOMAIN records
                                           /\ records[i] = before.records[i]
       /\ loc[t].status = "raised" =>
              ListingRaised(t) /\ records = before.records
       /\ loc[t].status = "ok" =>
            /\ result.adopted + result.failed = Len(selected)
            /\ result.adopted = Len(result.adopted_file_ids)
            /\ result.adopted = Cardinality(AdoptedIds(t))
            /\ result.failed = Len(result.errors)
            /\ DOMAIN records = DOMAIN before.records \cup AdoptedIds(t)
            /\ AdoptedIds(t) \cap DOMAIN before.records = {}
            /\ \A i \in AdoptedIds(t) :
                /\ \E k \in DOMAIN selected :
                       /\ records[i].path = selected[k].key
                       /\ records[i].storage_tier = selected[k].tier
                /\ HasObject(records[i].storage_tier, records[i].path)
                /\ \A j \in AdoptedIds(t) \ {i} :
                       records[j].path # records[i].path
                /\ \A o \in list_orphan_objects(objects, records, None) :
                       o # OrphanObject(records[i].path, records[i].storage_tier)
            /\ \A k \in DOMAIN selected :
                \/ \E i \in AdoptedIds(t) :
                       /\ records[i].path = selected[k].key
                       /\ records[i].storage_tier = selected[k].tier
                \/ \E e \in DOMAIN result.errors :
                       result.errors[e].path = selected[k].key

\* C18, as the specification states it: adopt_orphan_objects creates for each
\* selected orphan one record with the orphan's key and tier, touching no
\* object, and continues past a failing create; no adopted object is returned
\* by list_orphan_objects, and a second run with the same options and no
\* change in between adopts nothing.
C18_SecondRunAdoptsNothing ==
    \A t \in Tasks :
        Done(t, "adopt_orphan_objects") =>
            /\ AdoptedAsListed(t)
            /\ loc[t].status = "ok" => Selected(t, objects, records) = <<>>

\* C18, amended: the same, but a second run with the same options and no
\* change in between selects only orphans whose create failed in the first
\* run, never an adopted one, and nothing when no create failed.
C18_SecondRunAdoptsOnlyFailed ==
    \A t \in Tasks :
        Done(t, "adopt_orphan_objects") =>
            /\ AdoptedAsListed(t)
            /\ loc[t].status = "ok" =>
                LET again == Selected(t, objects, records)
                    before == loc[t].before[1]
                    selected == Selected(t, before.objects, before.records)
                IN /\ \A k \in DOMAIN again :
                        /\ \E j \in DOMAIN selected : selected[j] = again[k]
                        /\ \E e \in DOMAIN loc[t].ret[1].errors :
                               loc[t].ret[1].errors[e].path = again[k].key
                        /\ \A i \in AdoptedIds(t) :
                               records[i].path # again[k].key
                   /\ loc[t].ret[1].failed = 0 => again = <<>>

\* two orphans were selected, one in each tier: both have their record, and
\* a second run would select nothing
C18_Witness ==
    \E t \in Tasks :
        /\ Done(t, "adopt_orphan_objects")
        /\ loc[t].status = "ok"
        /\ Len(loc[t].orphans) = 2
        /\ loc[t].orphans[1].tier = "HOT"
        /\ loc[t].orphans[2].tier = "COLD"
        /\ loc[t].ret[1].adopted = 2
        /\ Cardinality(AdoptedIds(t)) = 2
        /\ Selected(t, objects, records) = <<>>


\* get_url has returned the unsigned URL of the record's path in the HOT
\* bucket, without a backend call
PublicUrlOfHot(t) ==
    /\ loc[t].status = "ok"
    /\ loc[t].calls = <<>>
    /\ loc[t].ret[1].kind = "public"
    /\ loc[t].ret[1].bucket = TierCfg(config, "HOT").bucket
    /\ loc[t].ret[1].endpoint = TierCfg(config, "HOT").endpoint
    /\ loc[t].ret[1].path = Quote(loc[t].file.path)
    /\ loc[t].ret[1].expires_in = None

\* C19: for a file uploaded with tier HOT and visibility PUBLIC under any
\* valid configuration (shared mode with or without prefix overrides, or
\* per-tier overrides), get_url on the record succeeds without a backend call
\* and returns the unsigned public URL of the record's path in the HOT bucket.
C19_PublicHotUrl ==
    \A t \in Tasks :
        (Done(t, "get_url") /\ loc[t].file.storage_tier = "HOT") =>
            PublicUrlOfHot(t)

\* the same under per-tier overrides with the default prefixes
C19_PublicHotUrlPerTier ==
    \A t \in Tasks :
        (/\ Done(t, "get_url")
         /\ loc[t].file.storage_tier = "HOT"
         /\ config = SeparateConfig)
        => PublicUrlOfHot(t)


\* the shared values with the defaults the specification states, for a tier
\* whose bucket is `bucket` and whose prefix override fields are `public` and
\* `private`
SharedWithDefaults(bucket, public, private) ==
    [endpoint |-> config.endpoint[1],
     port |-> IF config.port # None THEN config.port[1] ELSE 443,
     use_ssl |-> IF config.use_ssl # None THEN config.use_ssl[1] ELSE TRUE,
     access_key |-> config.access_key[1],
     secret_key |-> config.secret_key[1],
     bucket |-> bucket[1],
     public_prefix |-> IF public # None THEN public ELSE Some(DEFAULT_PUBLIC),
     private_prefix |-> IF private # None THEN private
                        ELSE Some(DEFAULT_PRIVATE)]

\* get_tier_config(config, tier) has returned, and config has no override
\* for the tier
SharedReturned(t, tier) ==
    /\ Done(t, "get_tier_config")
    /\ loc[t].target = tier
    /\ loc[t].status = "ok"
    /\ (IF tier = "HOT" THEN config.hot ELSE config.cold) = None

\* C20: get_tier_config returns the per-tier override verbatim when there is
\* one for the tier; otherwise the shared endpoint and credentials with the
\* tier's bucket, port 443 and SSL true when those are unset, and, for HOT
\* and COLD alike, the tier's prefix override fields when set and "public" /
\* "private" when not.
C20_TierConfigDefaults ==
    \A t \in Tasks :
        /\ (Done(t, "get_tier_config") /\ loc[t].target = "HOT"
            /\ config.hot # None) =>
               loc[t].status = "ok" /\ loc[t].ret = config.hot
        /\ (Done(t, "get_tier_config") /\ loc[t].target = "COLD"
            /\ config.cold # None) =>
               loc[t].status = "ok" /\ loc[t].ret = config.cold
        /\ SharedReturned(t, "HOT") =>
               loc[t].ret = Some(SharedWithDefaults(config.hot_bucket,
                                                    config.public_hot_prefix,
                                                    config.private_hot_prefix))
        /\ SharedReturned(t, "COLD") =>
               loc[t].ret = Some(SharedWithDefaults(config.cold_bucket,
                                                    config.public_cold_prefix,
                                                    config.private_cold_prefix))

\* what does hold: the overrides verbatim, the COLD defaults, and the HOT
\* defaults when both HOT prefix override fields are set
C20_TierConfigDefaultsOfCold ==
    \A t \in Tasks :
        /\ (Done(t, "get_tier_config") /\ loc[t].target = "HOT"
            /\ config.hot # None) =>
               loc[t].status = "ok" /\ loc[t].ret = config.hot
        /\ (Done(t, "get_tier_config") /\ loc[t].target = "COLD"
            /\ config.cold # None) =>
               loc[t].status = "ok" /\ loc[t].ret = config.cold
        /\ (/\ SharedReturned(t, "HOT")
            /\ config.public_hot_prefix # None
            /\ config.private_hot_prefix # None) =>
               loc[t].ret = Some(SharedWithDefaults(config.hot_bucket,
                                                    config.public_hot_prefix,
                                                    config.private_hot_prefix))
        /\ SharedReturned(t, "COLD") =>
               loc[t].ret = Some(SharedWithDefaults(config.cold_bucket,
                                                    config.public_cold_prefix,
                                                    config.private_cold_prefix))


\* the field of the shared configuration that holds the tier's bucket
BucketField(tier) == IF tier = "HOT" THEN config.hot_bucket ELSE config.cold_bucket

\* the per-tier override of the tier
Override(tier) == IF tier = "HOT" THEN config.hot ELSE config.cold

\* C21: get_tier_config for a tier without a per-tier override raises a
\* configuration error that names the tier whenever endpoint, access_key,
\* secret_key or the tier's bucket is missing; for a tier whose override is
\* present it does not raise, whatever the shared fields are.
C21_MissingConfigRaises ==
    \A t \in Tasks :
        Done(t, "get_tier_config") =>
            LET tier == loc[t].target
            IN /\ (/\ Override(tier) = None
                   /\ \/ Missing(config.endpoint)
                      \/ Missing(config.access_key)
                      \/ Missing(config.secret_key)
                      \/ Missing(BucketField(tier)))
                  => /\ loc[t].status = "raised"
                     /\ loc[t].error # None
                     /\ loc[t].error[1].type = "ValueError"
                     /\ loc[t].error[1].tier = tier
                     /\ loc[t].error[1].message
                            \in {"Missing S3 configuration",
                                 "Missing bucket configuration"}
               /\ Override(tier) # None =>
                      loc[t].status = "ok" /\ loc[t].ret = Override(tier)

\* the shared fields are complete but for the HOT bucket, COLD has its
\* override: get_tier_config(config, HOT) has raised, naming HOT
C21_Witness ==
    \E t \in Tasks :
        /\ Done(t, "get_tier_config")
        /\ loc[t].target = "HOT"
        /\ config.hot = None
        /\ config.cold # None
        /\ ~Missing(config.endpoint)
        /\ ~Missing(config.access_key)
        /\ ~Missing(config.secret_key)
        /\ config.hot_bucket = None
        /\ loc[t].status = "raised"
        /\ loc[t].error = Some([type |-> "ValueError",
                                message |-> "Missing bucket configuration",
                                tier |-> "HOT"])


\* path begins with the prefix get_path_prefix resolves for (tier,
\* visibility), as _build_path formats it, and a "/"
UnderPrefix(path, tier, visibility) ==
    StartsWith(path, Fmt(get_path_prefix(config, tier, visibility)) \o <<"/">>)

\* C22: in every reachable state each record's path begins with the resolved
\* public or private prefix of the record's current tier followed by "/",
\* for every configuration and after any sequence of upload, set_visibility,
\* set_tier and archive_expired_hot_files.
C22_PathUnderTierPrefix ==
    \A i \in DOMAIN records :
        \E visibility \in FileVisibility :
            UnderPrefix(records[i].path, records[i].storage_tier, visibility)

\* what does hold: each record's path begins with a prefix of one of the two
\* tiers
C22_PathUnderSomePrefix ==
    \A i \in DOMAIN records :
        \E tier \in StorageTier, visibility \in FileVisibility :
            UnderPrefix(records[i].path, tier, visibility)

\* and C22 itself under the configurations that give both tiers the same
\* prefixes
C22_PathUnderTierPrefixWhenTiersAgree ==
    config \in {SeparateConfig, OverrideConfig} => C22_PathUnderTierPrefix


\* C23: no two records ever have the same path: after any sequence of upload
\* (with or without a path_suffix of the caller's), adopt_orphan_objects,
\* set_visibility and set_tier, the paths of the records are pairwise
\* distinct across both tiers.
C23_PathsDistinct ==
    \A i \in DOMAIN records : \A j \in DOMAIN records \ {i} :
        records[i].path # records[j].path

\* an upload to the path of a record has put its object and was refused its
\* record
C23_Witness ==
    \E t \in Tasks :
        /\ Done(t, "upload")
        /\ RaisedAt(t, "create")
        /\ PathTaken(records, 0, loc[t].dst[2])


\* the visibility whose configured prefix, for the record's tier, the
\* record's path is under
ConfiguredVisibility(file) ==
    IF UnderPrefix(file.path, file.storage_tier, "PUBLIC") THEN "PUBLIC"
    ELSE IF UnderPrefix(file.path, file.storage_tier, "PRIVATE") THEN "PRIVATE"
    ELSE "INVALID"

\* C24: get_url and set_visibility derive a record's visibility from its
\* path by the configured prefixes of its tier: under the public prefix the
\* record is served by a public URL and set_visibility(PUBLIC) changes
\* nothing, under the private prefix it is served by a presigned URL and
\* set_visibility(PRIVATE) changes nothing, and under neither both raise the
\* invalid-path error before any call.
C24_VisibilityFromConfiguredPrefix ==
    \A t \in Tasks :
        LET v == ConfiguredVisibility(loc[t].file)
        IN /\ Done(t, "get_url") =>
                /\ v = "INVALID" => RaisedAt(t, "_get_visibility_from_path")
                /\ v = "PUBLIC" =>
                        loc[t].status = "ok" /\ loc[t].ret[1].kind = "public"
                /\ v = "PRIVATE" =>
                        loc[t].status = "ok" /\ loc[t].ret[1].kind = "presigned"
           /\ Done(t, "set_visibility") =>
                /\ v = "INVALID" =>
                        RaisedAt(t, "_get_visibility_from_path")
                        /\ loc[t].calls = <<>>
                /\ v = loc[t].target =>
                        /\ loc[t].status = "ok"
                        /\ loc[t].ret = Some(loc[t].file)
                        /\ loc[t].calls = <<>>
                /\ v \notin {"INVALID", loc[t].target} =>
                        ~RaisedAt(t, "_get_visibility_from_path")

\* what holds: C24 where both tiers are configured with the prefixes
\* "public" and "private"
C24_VisibilityFromDefaultPrefix ==
    config = SeparateConfig => C24_VisibilityFromConfiguredPrefix


\* a method of the object store has ended
StoreDone(t, op) == Done(t, op) /\ loc[t].before # None

\* the keys of the listed bucket that begin with the prefix asked for
Matching(t) ==
    {k \in DOMAIN objects[Bucket(config, loc[t].src[1])] :
        loc[t].prefix = None \/ StartsWith(k, loc[t].prefix[1])}

ListsEveryObjectOnce(t) ==
    LET listed == loc[t].ret[1]
    IN /\ {listed[i] : i \in DOMAIN listed} = Matching(t)
       /\ Len(listed) = Cardinality(Matching(t))

\* C25: list_objects follows the continuation tokens until a page is not
\* truncated: the list it returns holds every key of the bucket under the
\* prefix, each exactly once, and every listing that has begun ends.
C25_ListsEveryObjectOnce ==
    /\ [](\A t \in Tasks :
            (StoreDone(t, "list_objects") /\ loc[t].status = "ok") =>
                ListsEveryObjectOnce(t))
    /\ (pc[1] = "os_list") ~> (pc[1] = "done")

\* a listing under a prefix that took several pages
C25_Witness ==
    \E t \in Tasks :
        /\ StoreDone(t, "list_objects")
        /\ loc[t].status = "ok"
        /\ loc[t].prefix = Some(<<"a">>)
        /\ Len(loc[t].calls) > 1
        /\ Len(loc[t].ret[1]) > 1
        /\ Cardinality(DOMAIN objects[Bucket(config, loc[t].src[1])]) > 2


StoreBefore(t) == loc[t].before[1].objects

\* C27: download raises FileNotFoundError exactly when the backend reports
\* that the key does not exist, and every other error propagates as it was
\* raised; copy and move of a missing source fail with that FileNotFoundError
\* after the one get_object, with nothing written and nothing deleted.
C27_MissingSourceIsNotFound ==
    \A t \in Tasks :
        (\E op \in {"download", "copy", "move"} : StoreDone(t, op)) =>
            LET src == loc[t].src
                held == src[2] \in DOMAIN StoreBefore(t)[Bucket(config, src[1])]
            IN /\ ~held => RaisedAt(t, "get_object")
               /\ RaisedAt(t, "get_object") =>
                    LET e == loc[t].error[1]
                    IN /\ e # ClientError("NoSuchKey")
                       /\ e.class = "FileNotFoundError" =>
                            /\ e.cause = ClientError("NoSuchKey")
                            /\ ~held
                       /\ loc[t].calls = <<"get_object">>
                       /\ objects = StoreBefore(t)
               /\ (loc[t].op = "download" /\ loc[t].status = "ok") =>
                    loc[t].ret = Some(ObjectAt(src[1], src[2]))

\* a move of a missing source to a key that holds an object
C27_Witness ==
    \E t \in Tasks :
        /\ StoreDone(t, "move")
        /\ RaisedAt(t, "get_object")
        /\ loc[t].error[1].class = "FileNotFoundError"
        /\ HasObject(loc[t].dst[1], loc[t].dst[2])


\* C28: delete is idempotent: on a key the bucket holds, on one it has just
\* deleted and on one never written, it returns without raising and leaves
\* the buckets as they were but for that key, which is absent.  It raises
\* only an error that the client call raised whatever the bucket held.
C28_DeleteIdempotent ==
    \A t \in Tasks :
        StoreDone(t, "delete") =>
            LET bucket == Bucket(config, loc[t].src[1])
            IN /\ loc[t].calls = <<"delete_object">>
               /\ loc[t].status = "ok" =>
                    objects = S3Delete(StoreBefore(t), bucket, loc[t].src[2])
               /\ loc[t].status = "raised" =>
                    /\ loc[t].error[1].class # "FileNotFoundError"
                    /\ loc[t].error[1].code \notin {"NoSuchKey", "404"}
                    /\ objects = StoreBefore(t)

\* a delete of a key that its bucket, not empty, did not hold
C28_Witness ==
    \E t \in Tasks :
        /\ StoreDone(t, "delete")
        /\ loc[t].status = "ok"
        /\ loc[t].src[2] \notin
                DOMAIN StoreBefore(t)[Bucket(config, loc[t].src[1])]
        /\ DOMAIN objects[Bucket(config, loc[t].src[1])] # {}


\* a set_visibility with move_file=true to the visibility the record did
\* not have has returned
VisibilityMoved(t) ==
    /\ Done(t, "set_visibility")
    /\ loc[t].status = "ok"
    /\ loc[t].move_file
    /\ get_visibility_from_path(loc[t].file.path) # loc[t].target

OtherVisibility(v) == IF v = "PUBLIC" THEN "PRIVATE" ELSE "PUBLIC"

\* C29: a successful set_visibility to a different visibility with
\* move_file=true moves the object, within the bucket of the record's tier,
\* from the old path to <prefix of the new visibility>/<same suffix>, leaves
\* no object at the old path, and changes only the record's path.
C29_VisibilityMoveKeepsSuffix ==
    \A t \in Tasks :
        VisibilityMoved(t) =>
            LET file == loc[t].file
                tier == file.storage_tier
                new == loc[t].ret[1]
            IN /\ \E k \in 1..Len(file.path) :
                    LET suffix == SubSeq(file.path, k + 1, Len(file.path))
                    IN /\ file.path = build_path(config, tier,
                                         OtherVisibility(loc[t].target), suffix)
                       /\ new.path = build_path(config, tier, loc[t].target,
                                                suffix)
               /\ new = [file EXCEPT !.path = new.path]
               /\ records[file.id] = new
               /\ ~HasObject(tier, file.path)
               /\ loc[t].had # None
               /\ Stored(tier, new.path) = loc[t].had
               /\ loc[t].calls
                    = <<"get_object", "put_object", "delete_object", "update">>

\* what holds: C29 where both tiers have the prefixes "public" and "private"
C29_VisibilityMoveKeepsSuffixOfDefaults ==
    config = SeparateConfig => C29_VisibilityMoveKeepsSuffix

\* a move between the default prefixes
C29_Witness ==
    \E t \in Tasks : VisibilityMoved(t) /\ config = SeparateConfig


\* a set_tier to the tier the record was not in has returned
TierMoved(t) ==
    /\ Done(t, "set_tier")
    /\ loc[t].status = "ok"
    /\ loc[t].file.storage_tier # loc[t].target

\* C30: a successful set_tier to a different tier with move_file=true leaves
\* the object in the bucket of the new tier under the unchanged path and no
\* object at that path in the bucket of the old tier; with move_file=false
\* it reads, writes and deletes no object; either way only the record's tier
\* and hot_until change.
C30_TierMoveKeepsPath ==
    \A t \in Tasks :
        TierMoved(t) =>
            LET file == loc[t].file
                new == loc[t].ret[1]
            IN /\ new = [file EXCEPT !.storage_tier = loc[t].target,
                                     !.hot_until = new.hot_until]
               /\ records[file.id] = new
               /\ loc[t].move_file =>
                    /\ loc[t].had # None
                    /\ Stored(loc[t].target, file.path) = loc[t].had
                    /\ ~HasObject(file.storage_tier, file.path)
                    /\ loc[t].calls = <<"get_object", "put_object",
                                        "delete_object", "update">>
               /\ ~loc[t].move_file =>
                    /\ loc[t].calls = <<"update">>
                    /\ Stored(file.storage_tier, file.path) = loc[t].had

\* a record changed tier and its object stayed where it was
C30_Witness ==
    \E t \in Tasks :
        /\ TierMoved(t)
        /\ ~loc[t].move_file
        /\ loc[t].had # None


\* the sweep of coroutine t found record i, and the object at its (tier,
\* path), as they are now
Untouched(t, i) ==
    LET was == loc[t].before[1]
        bucket == Bucket(config, was.records[i].storage_tier)
        path == was.records[i].path
    IN /\ i \in DOMAIN records
       /\ records[i] = was.records[i]
       /\ (path \in DOMAIN objects[bucket]) = (path \in DOMAIN was.objects[bucket])
       /\ path \in DOMAIN objects[bucket] =>
            objects[bucket][path] = was.objects[bucket][path]

\* C31: the sweep changes only records that were HOT with hot_until <= now
\* when it asked for them: a COLD record, a HOT record with hot_until unset
\* and a HOT record with hot_until in the future keep their tier, path and
\* hot_until, and the object at their (tier, path) stays what it was.
C31_SweepTouchesOnlyExpired ==
    \A t \in Tasks :
        (Done(t, "archive") /\ ~RaisedAt(t, "find_expired_hot_files")) =>
            \A i \in DOMAIN loc[t].before[1].records :
                LET file == loc[t].before[1].records[i]
                IN (\/ file.storage_tier = "COLD"
                    \/ file.hot_until = None
                    \/ file.hot_until[1] > loc[t].found_at)
                   => Untouched(t, i)

\* a sweep has moved a record, and a HOT record with hot_until unset and one
\* with hot_until in the future are there
C31_Witness ==
    \E t \in Tasks :
        /\ Done(t, "archive")
        /\ loc[t].moved_count > 0
        /\ \E i \in DOMAIN records :
            records[i].storage_tier = "HOT" /\ records[i].hot_until = None
        /\ \E i \in DOMAIN records :
            /\ records[i].storage_tier = "HOT"
            /\ records[i].hot_until # None
            /\ records[i].hot_until[1] > now


\* C32: in every reachable state a record whose tier is COLD has hot_until
\* unset.
C32_ColdHasNoHotUntil ==
    \A i \in DOMAIN records :
        records[i].storage_tier = "COLD" => records[i].hot_until = None

\* what holds of C32: an upload to COLD ignores hot_duration, and
\* set_hot_duration gives no COLD record a hot_until
C32_ColdEntersWithoutHotUntil ==
    \A t \in Tasks :
        /\ (Done(t, "upload") /\ loc[t].status = "ok"
                /\ loc[t].ret[1].storage_tier = "COLD")
           => loc[t].ret[1].hot_until = None
        /\ (Done(t, "set_hot_duration") /\ loc[t].file.storage_tier = "COLD")
           => loc[t].status = "raised" /\ loc[t].calls = <<>>


\* C33: delete_orphan_objects, run on its own, deletes no object whose key
\* is the path of some record, and when a tier is given it deletes no object
\* in the bucket of the other tier: each such object is after the call what
\* it was before.
C33_DeleteSparesRecordsAndOtherTier ==
    \A t \in Tasks :
        Done(t, "delete_orphan_objects") =>
            LET before == loc[t].before[1]
            IN \A tier \in StorageTier :
                \A key \in DOMAIN before.objects[Bucket(config, tier)] :
                    (\/ \E i \in DOMAIN before.records :
                            before.records[i].path = key
                     \/ loc[t].tier \notin {None, Some(tier)})
                    => Stored(tier, key)
                           = Some(before.objects[Bucket(config, tier)][key])

\* a delete of the orphans of one tier has deleted one, and the other tier's
\* bucket holds an orphan and the object of a record
C33_Witness ==
    \E t \in Tasks, tier \in StorageTier :
        /\ Done(t, "delete_orphan_objects")
        /\ loc[t].status = "ok"
        /\ ~loc[t].dry_run
        /\ loc[t].tier \notin {None, Some(tier)}
        /\ loc[t].ret[1].deleted > 0
        /\ \E i \in DOMAIN records :
            /\ records[i].storage_tier = tier
            /\ HasObject(tier, records[i].path)
        /\ \E key \in DOMAIN objects[Bucket(config, tier)] :
            \A i \in DOMAIN records : records[i].path # key


\* every record names a (tier, path) that holds an object
RecordsHaveObjects ==
    \A i \in DOMAIN records :
        HasObject(records[i].storage_tier, records[i].path)

\* C34: no interleaving of an upload with a delete_orphan_objects that is no
\* dry run ends with a record whose object no longer exists.
C34_SweepSparesUploadInProgress ==
    (Done(1, "upload") /\ Done(2, "delete_orphan_objects"))
        => RecordsHaveObjects

\* what holds of C34: when the upload has its record before the sweep
\* begins, the sweep deletes nothing of it
C34_SweepSparesRecordedUpload ==
    (/\ Done(1, "upload")
     /\ Done(2, "delete_orphan_objects")
     /\ \A i \in DOMAIN records : i \in DOMAIN loc[2].before[1].records)
        => RecordsHaveObjects


\* the stored record with this id names a (tier, path) that holds an object
RecordHasObject(id) ==
    \A i \in DOMAIN records :
        records[i].id = id
            => HasObject(records[i].storage_tier, records[i].path)

\* set_tier by caller 1 and set_visibility by caller 2, of one record, both
\* returned without a step failing
TierAndVisibilityDone ==
    /\ Done(1, "set_tier") /\ loc[1].status = "ok"
    /\ Done(2, "set_visibility") /\ loc[2].status = "ok"
    /\ loc[1].file.id = loc[2].file.id
    /\ loc[1].src # loc[1].dst
    /\ loc[2].src # loc[2].dst

\* C35: no interleaving of a set_tier and a set_visibility of the same
\* record, both with move_file=true and no step of either failing, ends
\* with the stored record naming a (tier, path) that holds no object.
C35_TierAndVisibilityKeepObject ==
    TierAndVisibilityDone => RecordHasObject(loc[1].file.id)

\* what holds of C35: the two calls one after the other, the second given
\* the record the first returned
C35_OneAfterTheOtherKeepsObject ==
    (/\ TierAndVisibilityDone
     /\ \/ loc[2].file = loc[1].ret[1]
        \/ loc[1].file = loc[2].ret[1])
        => RecordHasObject(loc[1].file.id)


\* record i is HOT with hot_until <= now
ExpiredHot(i) == i \in Expired(records, now)

\* record i is COLD and its object is in the COLD bucket
Archived(i) ==
    /\ i \in DOMAIN records
    /\ records[i].storage_tier = "COLD"
    /\ HasObject("COLD", records[i].path)

\* record i is HOT and its object is no longer in the HOT bucket: the move
\* deleted the source and the update of the record did not follow
HalfMoved(i) ==
    /\ i \in DOMAIN records
    /\ records[i].storage_tier = "HOT"
    /\ ~HasObject("HOT", records[i].path)
    /\ HasObject("COLD", records[i].path)

\* C36: when the operations stop failing and the sweep keeps being run,
\* every record that is HOT with hot_until <= now is eventually COLD with
\* its object in the COLD bucket.
C36_ExpiredEventuallyArchived ==
    \A i \in 1..MaxRaceFiles : ExpiredHot(i) ~> Archived(i)

\* what holds of C36: the record is archived, or it is left HOT with its
\* object already in the COLD bucket only
C36_ArchivedOrHalfMoved ==
    \A i \in 1..MaxRaceFiles : ExpiredHot(i) ~> (Archived(i) \/ HalfMoved(i))

\* a record left half moved stays so, whatever the later sweeps do
C36_HalfMovedStays ==
    \A i \in 1..MaxRaceFiles :
        [](HalfMoved(i) /\ pc[1] = "idle" => [](~Archived(i)))


\* C37: no interleaving of an upload with adopt_orphan_objects leaves two
\* records for the same object (the same tier and path).
C37_OneRecordPerObject ==
    \A i, j \in DOMAIN records :
        (/\ records[i].storage_tier = records[j].storage_tier
         /\ records[i].path = records[j].path) => i = j

\* the sweep listed the object before the upload had its record, and the
\* two creates met: the upload's was refused after the sweep adopted the
\* object, or the sweep's after the upload recorded it
C37_Witness ==
    /\ Done(1, "upload") /\ Done(2, "adopt_orphan_objects")
    /\ loc[2].orphans # <<>>
    /\ \/ RaisedAt(1, "create") /\ loc[2].result.adopted = 1
       \/ loc[1].status = "ok" /\ loc[2].result.failed = 1


\* both callers ran archive_expired_hot_files and both were handed expired
\* records by find_expired_hot_files
TwoSweepsDone ==
    /\ Done(1, "archive") /\ Done(2, "archive")
    /\ loc[1].expired # <<>>
    /\ loc[2].expired = loc[1].expired

\* C38: two sweeps running concurrently over the same expired record, no
\* backend call failing by fault, end with the record COLD, its object in
\* the COLD bucket and not in the HOT bucket, and neither sweep raising.
C38_TwoSweepsArchiveOnce ==
    TwoSweepsDone =>
        /\ loc[1].status = "ok" /\ loc[2].status = "ok"
        /\ \A k \in DOMAIN loc[1].expired :
            LET row == records[loc[1].expired[k].id]
            IN /\ row.storage_tier = "COLD"
               /\ HasObject("COLD", row.path)
               /\ ~HasObject("HOT", row.path)

\* the two sweeps met: one found the source already deleted by the other
\* and went on
C38_Witness ==
    /\ TwoSweepsDone
    /\ loc[1].failed \cup loc[2].failed # {}
    /\ loc[1].moved_count + loc[2].moved_count = 1

\* the two sweeps met the other way: both read the source before either
\* deleted it, and both moved the file
C38_BothMoved ==
    /\ TwoSweepsDone
    /\ loc[1].moved_count = 1 /\ loc[2].moved_count = 1


\* the destination of the call of caller 1 holds the bytes its source held
\* when the call began
DestinationHoldsSource ==
    Stored(loc[1].dst[1], loc[1].dst[2]) =
        Some(StoreBefore(1)[Bucket(config, loc[1].src[1])][loc[1].src[2]])

\* C39: after ObjectStoreService.move returns, the destination holds the
\* bytes the source held, for every source and destination, the destination
\* equal to the source included.
C39_MoveKeepsBytes ==
    (StoreDone(1, "move") /\ loc[1].status = "ok") => DestinationHoldsSource

\* what holds of C39: a move to another key or another tier
C39_MoveElsewhereKeepsBytes ==
    (/\ StoreDone(1, "move") /\ loc[1].status = "ok"
     /\ loc[1].src # loc[1].dst) => DestinationHoldsSource


\* the port a URL names: the one written in it, or the default port of its
\* scheme
NamedPort(url) ==
    IF url.port_suffix # None THEN url.port_suffix[1]
    ELSE IF url.protocol = "https" THEN 443 ELSE 80

\* the URL that caller 1 was given and the endpoint the client of that tier
\* was created with
UrlGiven == loc[1].ret[1]

ClientEndpoint == endpoint_url(TierCfg(config, loc[1].src[1]))

\* C40: for every use_ssl and port, get_public_url names the scheme, host
\* and port that the tier's client connects to, and omits the port only
\* when it is the default port of the URL's scheme.
C40_PublicUrlNamesClientEndpoint ==
    Done(1, "get_public_url") =>
        /\ UrlGiven.protocol = ClientEndpoint.protocol
        /\ UrlGiven.endpoint = ClientEndpoint.endpoint
        /\ NamedPort(UrlGiven) = NamedPort(ClientEndpoint)
        /\ UrlGiven.port_suffix = None =>
              TierCfg(config, loc[1].src[1]).port = NamedPort(UrlGiven)

\* what holds of C40: the scheme and the host always, and the port when it
\* is neither 80 under https nor 443 under http
C40_PublicUrlNamesClientEndpointMatched ==
    Done(1, "get_public_url") =>
        LET c == TierCfg(config, loc[1].src[1])
        IN /\ UrlGiven.protocol = ClientEndpoint.protocol
           /\ UrlGiven.endpoint = ClientEndpoint.endpoint
           /\ ~(c.use_ssl /\ c.port = 80) /\ ~(~c.use_ssl /\ c.port = 443)
                => UrlGiven.port_suffix = ClientEndpoint.port_suffix

=============================================================================
